---- MODULE Spec2Model ----
(***************************************************************************)
(* A model of kDump (newcomb-luke/KDump): the KSM (machine code) and KO    *)
(* (object file) disassembler.  Strings are sequences of one-character     *)
(* strings, byte buffers are sequences of numbers 0..255, and every loop   *)
(* of the source is a RECURSIVE operator that walks the same collection in *)
(* the same order.                                                         *)
(***************************************************************************)
EXTENDS Integers, Sequences, FiniteSets, TLC

VARIABLES
    pc,           \* how far the run of the tool has come
    ksmfile,      \* the parsed KSM document that is being dumped
    full_dump,    \* what KSMFileDebug::dump_code_sections wrote
    symbol_dump,  \* what KSMFileDebug::dump_code_by_symbol wrote
    term_dump,    \* what ksm_reader's KSMFile::dump wrote
    kofile,       \* the parsed KO document that is being dumped
    ko_dump,      \* what KOFileDebug::dump_func_section wrote
    contents,     \* the bytes of a file that is being read
    result,       \* what the reader made of the bytes
    reader        \* the cursor of KSMFileReader: current_index, arg_address_bytes

vars == <<pc, ksmfile, full_dump, symbol_dump, term_dump, kofile, ko_dump,
          contents, result, reader>>

ko_vars == <<kofile, ko_dump>>

byte_vars == <<contents, result, reader>>

\* The value of a variable that the specification at hand does not use.
Idle == "idle"

----------------------------------------------------------------------------
(* Text helpers *)

Min(a, b) == IF a < b THEN a ELSE b

DigitChar == <<"0", "1", "2", "3", "4", "5", "6", "7", "8", "9">>

RECURSIVE ToDigits(_)
\* Rust's Display of a non-negative integer.
ToDigits(n) ==
    IF n < 10 THEN <<DigitChar[n + 1]>>
    ELSE ToDigits(n \div 10) \o <<DigitChar[(n % 10) + 1]>>

Repeat(c, n) == [i \in 1..n |-> c]

\* format!("{:>0w$}", n): zero padding on the left up to width w.
PadZero(s, w) == Repeat("0", w - Len(s)) \o s

\* format!("{:<w$}", s): space padding on the right up to width w.
PadRight(s, w) == s \o Repeat(" ", w - Len(s))

\* String::truncate(n)
Truncate(s, n) == SubSeq(s, 1, Min(n, Len(s)))

\* String::insert_str(at, t) with a 0-based byte position.
InsertStr(s, at, t) == SubSeq(s, 1, at) \o t \o SubSeq(s, at + 1, Len(s))

StartsWith(s, c) == Len(s) > 0 /\ s[1] = c

Contains(s, c) == \E i \in 1..Len(s) : s[i] = c

UpperLetters == <<"A", "B", "C", "D", "E", "F", "G", "H", "I", "J", "K", "L", "M",
                  "N", "O", "P", "Q", "R", "S", "T", "U", "V", "W", "X", "Y", "Z">>

LowerLetters == <<"a", "b", "c", "d", "e", "f", "g", "h", "i", "j", "k", "l", "m",
                  "n", "o", "p", "q", "r", "s", "t", "u", "v", "w", "x", "y", "z">>

ToAsciiLowercase(c) ==
    IF \E i \in 1..26 : UpperLetters[i] = c
    THEN LowerLetters[CHOOSE i \in 1..26 : UpperLetters[i] = c]
    ELSE c

\* str::eq_ignore_ascii_case
eq_ignore_ascii_case(s, t) ==
    /\ Len(s) = Len(t)
    /\ \A i \in 1..Len(s) : ToAsciiLowercase(s[i]) = ToAsciiLowercase(t[i])

\* The character U+0060 (a backtick), written out because the lexer of TLA+
\* reads a backtick as the start of a quotation.
Backtick == "BACKTICK"

\* s.split(Backtick).next().unwrap(): the text before the first backtick.
RECURSIVE SplitFirst(_, _)
SplitFirst(s, c) ==
    IF s = <<>> \/ s[1] = c THEN <<>> ELSE <<s[1]>> \o SplitFirst(Tail(s), c)

----------------------------------------------------------------------------
(* Constant values (KOSValue / Value) and the argument section *)

None == [kind |-> "None", text |-> <<>>, num |-> 0]

KNull            == [kind |-> "Null", text |-> <<>>, num |-> 0]
KArgMarker       == [kind |-> "ArgMarker", text |-> <<>>, num |-> 0]
KBool(b)         == [kind |-> "Bool", text |-> <<>>, num |-> b]
KInt16(n)        == [kind |-> "Int16", text |-> <<>>, num |-> n]
KString(t)       == [kind |-> "String", text |-> t, num |-> 0]
KStringValue(t)  == [kind |-> "StringValue", text |-> t, num |-> 0]

IsStringLike(v) == v.kind \in {"String", "StringValue"}

\* The encoded size of a constant: the tag byte and its payload.
size_bytes(v) ==
    CASE v.kind \in {"Null", "ArgMarker"}              -> 1
      [] v.kind \in {"Bool", "Byte", "BoolValue"}      -> 2
      [] v.kind = "Int16"                              -> 3
      [] v.kind \in {"Int32", "Float", "ScalarInt"}    -> 5
      [] v.kind \in {"Double", "ScalarDouble"}         -> 9
      [] v.kind \in {"String", "StringValue"}          -> 2 + Len(v.text)

\* The index of the first constant of a pool: "%A" and the width byte precede it.
FirstArgIndex == 3

RECURSIVE ArgIndexOf(_, _)
\* The index of the k-th constant: FirstArgIndex plus the sizes before it.
ArgIndexOf(arguments, k) ==
    IF k <= 1 THEN FirstArgIndex
    ELSE ArgIndexOf(arguments, k - 1) + size_bytes(arguments[k - 1])

\* An argument section: the constants in file order and, built once, the index
\* at which each of them starts.
ArgumentSection(num_index_bytes, arguments) ==
    [num_index_bytes |-> num_index_bytes,
     arguments       |-> arguments,
     index_of        |-> [k \in 1..Len(arguments) |-> ArgIndexOf(arguments, k)]]

\* ArgumentSection::get(ArgIndex): the constant that starts at that index.
ArgumentSection_get(arg_section, op) ==
    LET hit == {k \in 1..Len(arg_section.arguments) : arg_section.index_of[k] = op}
    IN IF hit = {} THEN None ELSE arg_section.arguments[CHOOSE k \in hit : TRUE]

T_at0013 == <<"@", "0", "0", "1", "3">>
T_at13   == <<"@", "1", "3">>
T_foo1   == <<"f", "o", "o", Backtick, "1">>
T_foo    == <<"f", "o", "o">>
T_main   == <<"m", "a", "i", "n">>
T_Main   == <<"M", "a", "i", "n">>
T_init   == <<"i", "n", "i", "t">>
T_long   == <<"l", "o", "n", "g", "l", "a", "b", "e", "l">>

\* The constant pool of the documents that are dumped.
PoolValues ==
    << KString(T_at0013), KString(T_at13), KString(T_foo1), KString(T_foo),
       KStringValue(T_at0013), KInt16(7), KString(T_long) >>

\* The index of the first pool constant equal to v.
AddrOf(v) ==
    ArgIndexOf(PoolValues, CHOOSE k \in 1..Len(PoolValues) : PoolValues[k] = v)

\* An operand that is the index of no constant (it points into the first one).
DanglingAddr == FirstArgIndex + 1

----------------------------------------------------------------------------
(* Instructions and code sections of a KSM document *)

OpNop  == 51     \* 0x33
OpPush == 78     \* 0x4e
OpLbrt == 240    \* 0xf0

Instr(opcode, ops) == [opcode |-> opcode, ops |-> ops]

\* The instructions the documents are built from.
InstrSet ==
    {Instr(OpNop, <<>>)}
    \cup {Instr(OpPush, <<a>>) : a \in {AddrOf(KString(T_foo)), DanglingAddr}}
    \cup {Instr(OpLbrt, <<AddrOf(v)>>) :
            v \in {KString(T_at0013), KString(T_at13), KString(T_foo1),
                   KString(T_long), KStringValue(T_at0013)}}

MaxInstrs == 2
MaxSections == 2

RECURSIVE SeqsUpTo(_, _)
\* All sequences over S of length at most n.
SeqsUpTo(S, n) ==
    IF n = 0 THEN {<<>>}
    ELSE LET shorter == SeqsUpTo(S, n - 1)
         IN shorter \cup {Append(q, x) : q \in shorter, x \in S}

RECURSIVE Prefixes(_)
\* A sequence and all it begins with.
Prefixes(q) == IF q = <<>> THEN {<<>>} ELSE {q} \cup Prefixes(SubSeq(q, 1, Len(q) - 1))

CodeTypes == {"Function", "Initialization", "Main"}

CodeSections ==
    {[section_type |-> t, instructions |-> is] :
        t \in CodeTypes, is \in SeqsUpTo(InstrSet, MaxInstrs)}

KSMFiles ==
    {[arg_section   |-> ArgumentSection(1, PoolValues),
      code_sections |-> cs] : cs \in SeqsUpTo(CodeSections, MaxSections)}

\* The symbols asked for with --disassemble-symbol.
Symbols == {T_Main, T_main, T_foo}

----------------------------------------------------------------------------
(* output/ksm.rs: KSMFileDebug, the dump of a KSM document *)

\* KSMFileDebug::instr_size
instr_size(file, instr) ==
    1 + file.arg_section.num_index_bytes * Len(instr.ops)

\* KSMFileDebug::value_from_operand
value_from_operand(file, op) == ArgumentSection_get(file.arg_section, op)

\* format!("@{:>06}", index)
FormatLabel(index) == <<"@">> \o PadZero(ToDigits(index), 6)

\* A label reset that takes the operand's text as it is.
ResetLabel_Verbatim(label, arg) ==
    IF arg.kind = "String" THEN arg.text ELSE label

\* The label a label reset leaves behind: two zeros go in after a leading
\* "@" and the text is cut to 7 characters.  Only a String resets the text.
ResetLabel(label, arg) ==
    LET taken  == IF arg.kind = "String" THEN arg.text ELSE label
        padded == IF arg.kind = "String" /\ StartsWith(taken, "@")
                  THEN InsertStr(taken, 1, <<"0", "0">>)
                  ELSE taken
    IN Truncate(padded, 7)

\* The label of the first instruction that dump_code_section prints.
InitialLabel(start_index) == <<"@", "0", "0", "0", "0", "0", "1">>

\* One printed line of a disassembly.
Line(shown, instr, values, complete) ==
    [label    |-> shown,
     opcode   |-> instr.opcode,
     is_lbrt  |-> instr.opcode = OpLbrt,
     operands |-> values,
     complete |-> complete]

RECURSIVE dump_code_section_loop(_, _, _, _, _, _, _)
\* The loop over the instructions of KSMFileDebug::dump_code_section.
dump_code_section_loop(file, instrs, i, label, index, addr, lines) ==
    IF i > Len(instrs)
    THEN [lines |-> lines, err |-> FALSE, index |-> index, addr |-> addr]
    ELSE
        LET instr   == instrs[i]
            is_lbrt == instr.opcode = OpLbrt
            shown   == IF is_lbrt THEN PadRight(<<>>, 7) \o <<" ">>
                       ELSE PadRight(label, 7) \o <<" ">>
            values  == [k \in 1..Len(instr.ops) |->
                            value_from_operand(file, instr.ops[k])]
            invalid == \E k \in 1..Len(instr.ops) : values[k] = None
            label2  == IF is_lbrt
                       THEN IF Len(instr.ops) = 1 /\ ~invalid
                            THEN ResetLabel(label, values[1])
                            ELSE label
                       ELSE FormatLabel(index + 1)
            index2  == IF is_lbrt THEN index ELSE index + 1
        IN IF invalid
           THEN [lines |-> Append(lines, Line(shown, instr, <<>>, FALSE)),
                 err   |-> TRUE, index |-> index2, addr |-> addr]
           ELSE dump_code_section_loop(
                    file, instrs, i + 1, label2, index2,
                    addr + instr_size(file, instr),
                    Append(lines, Line(shown, instr, values, TRUE)))

\* KSMFileDebug::dump_code_section: the lines of one section and the
\* (index, addr) it returns.
dump_code_section(file, code_section, start_index, start_addr) ==
    LET first == IF Len(code_section.instructions) > 0
                 THEN code_section.instructions[1] ELSE Instr(OpNop, <<>>)
        named == /\ code_section.section_type = "Function"
                 /\ Len(code_section.instructions) > 0
                 /\ Len(first.ops) = 1
                 /\ first.opcode = OpLbrt
    IN IF named /\ value_from_operand(file, first.ops[1]) = None
       THEN [lines |-> <<>>, err |-> TRUE, index |-> start_index, addr |-> start_addr]
       ELSE dump_code_section_loop(file, code_section.instructions, 1,
                                   InitialLabel(start_index), start_index,
                                   start_addr + 2, <<>>)

\* The bytes a section adds to the running address when it is passed over.
SkipAddr(file, instrs) ==
    LET RECURSIVE Sum(_)
        Sum(i) == IF i > Len(instrs) THEN 0 ELSE instr_size(file, instrs[i]) + Sum(i + 1)
    IN 2 + Sum(1)

RECURSIVE dump_code_sections_loop(_, _, _, _, _)
\* The loop over the sections of KSMFileDebug::dump_code_sections.  Every
\* section leaves a record of the index and address at which it was reached.
dump_code_sections_loop(file, n, index, addr, visits) ==
    IF n > Len(file.code_sections)
    THEN [visits |-> visits, err |-> FALSE]
    ELSE
        LET code_section == file.code_sections[n]
            instrs       == code_section.instructions
        IN IF Len(instrs) # 0
           THEN LET r == dump_code_section(file, code_section, index, addr)
                    v == [section |-> n, start_index |-> index, start_addr |-> addr,
                          lines |-> r.lines]
                IN IF r.err
                   THEN [visits |-> Append(visits, v), err |-> TRUE]
                   ELSE dump_code_sections_loop(file, n + 1, r.index, r.addr,
                                                Append(visits, v))
           ELSE dump_code_sections_loop(
                    file, n + 1, index + Len(instrs), addr + SkipAddr(file, instrs),
                    Append(visits, [section |-> n, start_index |-> index,
                                    start_addr |-> addr, lines |-> <<>>]))

\* KSMFileDebug::dump_code_sections
dump_code_sections(file) == dump_code_sections_loop(file, 1, 1, 0, <<>>)

\* Whether a section's type alone answers to the symbol (dump_code_by_symbol).
TypeMatches(section_type, symbol) ==
    CASE section_type = "Main"           -> eq_ignore_ascii_case(symbol, T_main)
      [] section_type = "Initialization" -> eq_ignore_ascii_case(symbol, T_init)
      [] section_type = "Function"       -> FALSE

RECURSIVE ScanInstrs(_, _, _, _)
\* The inner loop of dump_code_by_symbol: "err" at the first operand that is
\* the index of no constant, "match" at the first instruction with a string
\* operand equal to the symbol, "none" when the instructions run out.
ScanInstrs(file, instrs, i, symbol) ==
    IF i > Len(instrs) THEN "none"
    ELSE LET instr  == instrs[i]
             values == [k \in 1..Len(instr.ops) |->
                            value_from_operand(file, instr.ops[k])]
         IN IF \E k \in 1..Len(instr.ops) : values[k] = None THEN "err"
            ELSE IF \E k \in 1..Len(instr.ops) :
                        IsStringLike(values[k]) /\ values[k].text = symbol
                 THEN "match"
                 ELSE ScanInstrs(file, instrs, i + 1, symbol)

\* What a section that was passed over adds to the index of dump_code_by_symbol.
SkipIndex(code_section) == Len(code_section.instructions)

RECURSIVE dump_code_by_symbol_loop(_, _, _, _, _, _)
\* The loop over the sections of dump_code_by_symbol.  A match by type leaves
\* the loop; a match by operand leaves only the loop over the instructions.
dump_code_by_symbol_loop(file, symbol, n, index, addr, found) ==
    IF n > Len(file.code_sections)
    THEN [found |-> found, index |-> index, addr |-> addr, err |-> FALSE]
    ELSE
        LET code_section == file.code_sections[n]
            instrs       == code_section.instructions
            scan         == ScanInstrs(file, instrs, 1, symbol)
        IN IF TypeMatches(code_section.section_type, symbol)
           THEN [found |-> n, index |-> index, addr |-> addr, err |-> FALSE]
           ELSE IF scan = "err"
           THEN [found |-> found, index |-> index, addr |-> addr, err |-> TRUE]
           ELSE dump_code_by_symbol_loop(
                    file, symbol, n + 1,
                    index + SkipIndex(code_section),
                    addr + SkipAddr(file, instrs),
                    IF scan = "match" THEN n ELSE found)

\* KSMFileDebug::dump_code_by_symbol: the symbol asked for, the section found
\* (0 for none), the start index and start address handed to dump_code_section,
\* and its lines.
dump_code_by_symbol(file, symbol) ==
    LET s == dump_code_by_symbol_loop(file, symbol, 1, 1, 0, 0)
    IN IF s.err
       THEN [found |-> 0, start_index |-> s.index, start_addr |-> s.addr,
             lines |-> <<>>, err |-> TRUE, symbol |-> symbol]
       ELSE IF s.found = 0
       THEN [found |-> 0, start_index |-> s.index, start_addr |-> s.addr,
             lines |-> <<>>, err |-> FALSE, symbol |-> symbol]
       ELSE LET r == dump_code_section(file, file.code_sections[s.found],
                                       s.index, s.addr)
            IN [found |-> s.found, start_index |-> s.index, start_addr |-> s.addr,
                lines |-> r.lines, err |-> r.err, symbol |-> symbol]

----------------------------------------------------------------------------
(* ksm_reader: KSMFile::dump and CodeSection::dump, the earlier dump *)

\* Instr::size of ksm_reader's instructions, a u8.
Instr_size(file, instr) ==
    (1 + file.arg_section.num_index_bytes * Len(instr.ops)) % 256

\* The size CodeSection::read records for a section with these instructions.
RecordedSize(file, instrs) ==
    LET RECURSIVE Sum(_)
        Sum(i) == IF i > Len(instrs) THEN 0 ELSE Instr_size(file, instrs[i]) + Sum(i + 1)
    IN 6 + Sum(1)

\* CodeSection::size
CodeSection_size(file, code_section) == RecordedSize(file, code_section.instructions)

\* CodeSection::number_real_instructions: label resets are not counted.
number_real_instructions(code_section) ==
    Cardinality({i \in 1..Len(code_section.instructions) :
                    code_section.instructions[i].opcode # OpLbrt})

\* The offset of the first instruction behind the markers of a section.
HeaderOverhead(section_type) ==
    CASE section_type = "Function"       -> 2
      [] section_type = "Initialization" -> 4
      [] section_type = "Main"           -> 6

\* ArgumentSection::get_argument unwraps: an index of no constant panics.
get_argument(file, addr) == ArgumentSection_get(file.arg_section, addr)

\* The label CodeSection::dump starts a section with.
FirstLabel(instruction_index) == <<"@">> \o PadZero(ToDigits(instruction_index), 6)

RECURSIVE CodeSection_dump_loop(_, _, _, _, _, _, _)
\* The loop over the instructions of CodeSection::dump.
CodeSection_dump_loop(file, instrs, i, label, instruction_index, addr, lines) ==
    IF i > Len(instrs)
    THEN [lines |-> lines, panic |-> FALSE]
    ELSE
        LET instr   == instrs[i]
            is_lbrt == instr.opcode = OpLbrt
            shown   == IF is_lbrt THEN Repeat(" ", 8) ELSE label \o <<" ">>
            values  == [k \in 1..Len(instr.ops) |-> get_argument(file, instr.ops[k])]
            \* get_argument(..).unwrap() and unreachable!()
            panics  == \/ \E k \in 1..Len(instr.ops) : values[k] = None
                       \/ is_lbrt /\ values[1].kind # "String"
            label2  == IF is_lbrt
                       THEN IF panics THEN label ELSE ResetLabel(label, values[1])
                       ELSE FormatLabel(instruction_index + 1)
            index2  == IF is_lbrt THEN instruction_index ELSE instruction_index + 1
        IN IF panics
           THEN [lines |-> Append(lines, Line(shown, instr, <<>>, FALSE)),
                 panic |-> TRUE]
           ELSE CodeSection_dump_loop(
                    file, instrs, i + 1, label2, index2,
                    addr + Instr_size(file, instr),
                    Append(lines, Line(shown, instr, values, TRUE)))

\* CodeSection::dump
CodeSection_dump(file, code_section, global_offset, global_instruction_index) ==
    LET instrs == code_section.instructions
        offset == global_offset + HeaderOverhead(code_section.section_type)
        \* get_function_name reads the argument of a leading label reset
        named  == /\ code_section.section_type = "Function"
                  /\ Len(instrs) > 0
                  /\ instrs[1].opcode = OpLbrt
    IN IF named /\ get_argument(file, instrs[1].ops[1]) = None
       THEN [lines |-> <<>>, panic |-> TRUE]
       ELSE CodeSection_dump_loop(file, instrs, 1,
                                  FirstLabel(global_instruction_index),
                                  global_instruction_index, offset, <<>>)

\* Whether t stands in s at position at.
IsPrefixAt(t, s, at) ==
    \A i \in 1..Len(t) : at + i - 1 <= Len(s) /\ s[at + i - 1] = t[i]

\* str::contains(&str)
ContainsStr(s, t) == \E at \in 1..(Len(s) + 1) : IsPrefixAt(t, s, at)

RECURSIVE CodeSection_contains_loop(_, _, _, _)
\* CodeSection::contains: "panic" at an operand that is the index of no
\* constant, "yes" at the first string operand that contains the symbol.
CodeSection_contains_loop(file, instrs, i, symbol) ==
    IF i > Len(instrs) THEN "no"
    ELSE LET instr  == instrs[i]
             values == [k \in 1..Len(instr.ops) |-> get_argument(file, instr.ops[k])]
             RECURSIVE Operands(_)
             Operands(k) ==
                 IF k > Len(instr.ops) THEN "no"
                 ELSE IF values[k] = None THEN "panic"
                 ELSE IF IsStringLike(values[k]) /\ ContainsStr(values[k].text, symbol)
                      THEN "yes"
                      ELSE Operands(k + 1)
             here == Operands(1)
         IN IF here # "no" THEN here
            ELSE CodeSection_contains_loop(file, instrs, i + 1, symbol)

CodeSection_contains(file, code_section, symbol) ==
    CodeSection_contains_loop(file, code_section.instructions, 1, symbol)

RECURSIVE KSMFile_dump_loop(_, _, _, _, _, _)
\* The loop over the sections of KSMFile::dump; config.symbol is <<>> for the
\* full disassembly (config.disassemble) and the symbol asked for otherwise.
KSMFile_dump_loop(file, config, n, offset, instruction_index, visits) ==
    IF n > Len(file.code_sections)
    THEN [visits |-> visits, panic |-> FALSE]
    ELSE
        LET section == file.code_sections[n]
            has     == IF config.disassemble THEN "yes"
                       ELSE CodeSection_contains(file, section, config.symbol)
            wanted  == \/ has = "yes"
                       \/ /\ section.section_type = "Main"
                          /\ eq_ignore_ascii_case(config.symbol, T_main)
            r       == CodeSection_dump(file, section, offset, instruction_index)
            v       == [section |-> n, start_index |-> instruction_index,
                        start_addr |-> offset, lines |-> r.lines]
        IN IF has = "panic" THEN [visits |-> visits, panic |-> TRUE]
           ELSE IF wanted /\ (r.panic \/ ~config.disassemble)
           THEN [visits |-> Append(visits, v), panic |-> r.panic]
           ELSE KSMFile_dump_loop(
                    file, config, n + 1,
                    offset + CodeSection_size(file, section),
                    instruction_index + number_real_instructions(section),
                    IF wanted THEN Append(visits, v) ELSE visits)

\* KSMFile::dump
KSMFile_dump(file, config) ==
    KSMFile_dump_loop(file, config, 1, 0, 1, <<>>)

----------------------------------------------------------------------------
(* The run of the tool on a KSM document: KSMFileDebug::dump *)

NotDumped == [err |-> FALSE, visits |-> <<>>]

NotFound == [found |-> 0, start_index |-> 0, start_addr |-> 0,
             lines |-> <<>>, err |-> FALSE, symbol |-> <<>>]

InitKSM ==
    /\ pc = "ksm_parsed"
    /\ ksmfile \in KSMFiles
    /\ full_dump = NotDumped
    /\ symbol_dump = NotFound
    /\ term_dump = Idle
    /\ kofile = Idle /\ ko_dump = Idle
    /\ contents = Idle /\ result = Idle /\ reader = Idle

\* config.disassemble || config.full_contents: every code section is dumped.
DumpCodeSections ==
    /\ pc = "ksm_parsed"
    /\ full_dump' = dump_code_sections(ksmfile)
    /\ pc' = IF full_dump'.err THEN "ksm_failed" ELSE "sections_dumped"
    /\ UNCHANGED <<ksmfile, symbol_dump, term_dump, ko_vars, byte_vars>>

\* config.disassemble_symbol: the section that answers to the symbol is dumped,
\* alone or after the full disassembly (--full-contents).
DumpCodeBySymbol ==
    /\ pc \in {"ksm_parsed", "sections_dumped"}
    /\ \E symbol \in Symbols :
          symbol_dump' = dump_code_by_symbol(ksmfile, symbol)
    /\ pc' = IF symbol_dump'.err THEN "ksm_failed" ELSE "symbol_dumped"
    /\ UNCHANGED <<ksmfile, full_dump, term_dump, ko_vars, byte_vars>>

\* The dump of ksm_reader: --disassemble, or --disassemble-symbol with a symbol.
KSMFileDump ==
    /\ pc = "ksm_parsed"
    /\ \E config \in {[disassemble |-> TRUE, symbol |-> <<>>]}
                      \cup {[disassemble |-> FALSE, symbol |-> y] : y \in Symbols} :
          term_dump' = [config |-> config, out |-> KSMFile_dump(ksmfile, config)]
    /\ pc' = IF term_dump'.out.panic THEN "ksm_panicked" ELSE "term_dumped"
    /\ UNCHANGED <<ksmfile, full_dump, symbol_dump, ko_vars, byte_vars>>

NextKSM == DumpCodeSections \/ DumpCodeBySymbol \/ KSMFileDump

SpecKSM == InitKSM /\ [][NextKSM]_vars

----------------------------------------------------------------------------
(* Claims about the labels of a KSM disassembly *)

RECURSIVE AllLines(_)
\* The lines of all sections of a dump, in the order they were written.
AllLines(visits) ==
    IF visits = <<>> THEN <<>> ELSE Head(visits).lines \o AllLines(Tail(visits))

HasLabelReset(file) ==
    \E n \in 1..Len(file.code_sections) :
        \E i \in 1..Len(file.code_sections[n].instructions) :
            file.code_sections[n].instructions[i].opcode = OpLbrt

\* "@" and the six decimal digits of k, as a label is printed (with the
\* blank that follows it).
SixDigitLabel(k) ==
    <<"@", DigitChar[((k \div 100000) % 10) + 1], DigitChar[((k \div 10000) % 10) + 1],
      DigitChar[((k \div 1000) % 10) + 1], DigitChar[((k \div 100) % 10) + 1],
      DigitChar[((k \div 10) % 10) + 1], DigitChar[(k % 10) + 1], " ">>

\* C2: in the full disassembly of a file without label resets the k-th
\* instruction of the file, counted over all code sections, carries the
\* label @ and the six digits of k.
C2_LabelsCountAcrossSections ==
    (pc = "sections_dumped" /\ ~HasLabelReset(ksmfile)) =>
        \A k \in 1..Len(AllLines(full_dump.visits)) :
            AllLines(full_dump.visits)[k].label = SixDigitLabel(k)

\* The label a line would show for this text (7 columns and a blank).
ShownLabel(text) == PadRight(text, 7) \o <<" ">>

BlankLabel == <<" ", " ", " ", " ", " ", " ", " ", " ">>

\* A label reset at line j of a section with a String operand of this text,
\* followed in the section by an instruction that is no label reset.
ResetThenReal(lines, j, text) ==
    /\ j + 1 <= Len(lines)
    /\ lines[j].is_lbrt /\ lines[j].complete
    /\ lines[j].operands[1] = KString(text)
    /\ ~lines[j + 1].is_lbrt

RealLines(lines) == Cardinality({j \in 1..Len(lines) : ~lines[j].is_lbrt})

\* What C3 says of the lines of one dumped section, for a reset text and the
\* label it is to give.
LabelResetShown(lines, text, expected) ==
    \A j \in 1..Len(lines) :
        /\ (lines[j].is_lbrt => lines[j].label = BlankLabel)
        /\ (ResetThenReal(lines, j, text) => lines[j + 1].label = expected)

\* Label resets do not count: the index a dump reaches a section with grows
\* by the number of the other instructions of the section before it.
ResetsNotCounted(visits) ==
    \A n \in 1..(Len(visits) - 1) :
        visits[n + 1].section = visits[n].section + 1 =>
            visits[n + 1].start_index
                = visits[n].start_index + RealLines(visits[n].lines)

\* What C3 says of every dump of the run, for a reset text and the text of
\* the label it is to give.  output/ksm.rs prints a label in 7 columns and a
\* blank, ksm_reader/sections.rs prints the label and a blank.
LabelResetEverywhere(text, expected) ==
    /\ \A n \in 1..Len(full_dump.visits) :
           LabelResetShown(full_dump.visits[n].lines, text, ShownLabel(expected))
    /\ (pc = "sections_dumped" => ResetsNotCounted(full_dump.visits))
    /\ LabelResetShown(symbol_dump.lines, text, ShownLabel(expected))
    /\ (pc \in {"term_dumped", "ksm_panicked"} =>
           /\ \A n \in 1..Len(term_dump.out.visits) :
                  LabelResetShown(term_dump.out.visits[n].lines, text,
                                  expected \o <<" ">>)
           /\ (term_dump.config.disassemble /\ pc = "term_dumped"
                  => ResetsNotCounted(term_dump.out.visits)))

\* C3 as it stands: the reset text @13 gives the label @000013.
C3_At13GivesSevenCharacters ==
    LabelResetEverywhere(T_at13, <<"@", "0", "0", "0", "0", "1", "3">>)

\* C3, amended: a label reset whose String operand reads @0013 gives the
\* label @000013 (two zeros go in after the @ and the text is cut to 7
\* characters, so @13 gives @0013); the label reset itself is shown without a
\* label and is not counted, and the label it gives is shown on the
\* instruction that follows it in the section.
C3_LabelReset ==
    /\ LabelResetEverywhere(T_at0013, <<"@", "0", "0", "0", "0", "1", "3">>)
    /\ LabelResetEverywhere(T_at13, <<"@", "0", "0", "1", "3">>)
    /\ LabelResetEverywhere(T_long, <<"l", "o", "n", "g", "l", "a", "b">>)

\* C3's case: both dumps have shown @000013 on the instruction after a reset
\* to @0013.
C3_Witness ==
    /\ pc = "sections_dumped"
    /\ \E n \in 1..Len(full_dump.visits) :
           /\ ResetThenReal(full_dump.visits[n].lines, 1, T_at0013)
           /\ full_dump.visits[n].lines[2].label
                  = <<"@", "0", "0", "0", "0", "1", "3", " ">>
           /\ n < Len(full_dump.visits)

\* C4: the section that --disassemble-symbol prints starts at the index and
\* the address at which the full disassembly of the same file reaches it, and
\* so shows the same lines.
C4_SymbolDumpStartsWhereFullDumpDoes ==
    (pc = "symbol_dumped" /\ symbol_dump.found # 0
        /\ Len(full_dump.visits) >= symbol_dump.found) =>
        LET v == full_dump.visits[symbol_dump.found]
        IN /\ symbol_dump.start_index = v.start_index
           /\ symbol_dump.start_addr = v.start_addr
           /\ symbol_dump.lines = v.lines

\* An operand of an instruction of the file is the index of no constant.
HasDanglingOperand(file) ==
    \E n \in 1..Len(file.code_sections) :
        \E i \in 1..Len(file.code_sections[n].instructions) :
            \E k \in 1..Len(file.code_sections[n].instructions[i].ops) :
                ArgumentSection_get(file.arg_section,
                                    file.code_sections[n].instructions[i].ops[k]) = None

\* Every operand that a line shows is a constant of the pool.
OperandsFromPool(lines) ==
    \A j \in 1..Len(lines) : \A k \in 1..Len(lines[j].operands) :
        \E a \in 1..Len(ksmfile.arg_section.arguments) :
            lines[j].operands[k] = ksmfile.arg_section.arguments[a]

\* C13: the disassembly of a file with an operand that is the index of no
\* constant returns an error: the full disassembly does not come to its end,
\* no dump crashes (in a file without label resets nothing but such an
\* operand can make one crash), and no line shows a value for such an operand.
C13_DanglingOperandIsAnError ==
    /\ pc = "sections_dumped" => ~HasDanglingOperand(ksmfile)
    /\ \A n \in 1..Len(full_dump.visits) : OperandsFromPool(full_dump.visits[n].lines)
    /\ OperandsFromPool(symbol_dump.lines)
    /\ (pc = "term_dumped" /\ term_dump.config.disassemble)
          => ~HasDanglingOperand(ksmfile)
    /\ (pc = "ksm_panicked" /\ ~HasLabelReset(ksmfile))
          => ~HasDanglingOperand(ksmfile)

\* The string value of the operand k of an instruction, <<>> when the operand
\* is the index of no constant or of a constant that is not a string.
OperandText(file, instr, k) ==
    LET v == ArgumentSection_get(file.arg_section, instr.ops[k])
    IN IF IsStringLike(v) THEN v.text ELSE <<>>

\* A section whose first instruction is a label reset to a label that, cut at
\* its first backtick, is the target.
NamedBy(file, code_section, target) ==
    /\ Len(code_section.instructions) > 0
    /\ code_section.instructions[1].opcode = OpLbrt
    /\ SplitFirst(OperandText(file, code_section.instructions[1], 1), Backtick) = target

\* A section with an operand whose string value is the target.
MentionedIn(file, code_section, target) ==
    \E i \in 1..Len(code_section.instructions) :
        \E k \in 1..Len(code_section.instructions[i].ops) :
            OperandText(file, code_section.instructions[i], k) = target

\* The sections of a file that answer to the target by name, by operand, or as
\* the MAIN section asked for as "main".
MatchingSections(file, target) ==
    {n \in 1..Len(file.code_sections) :
        \/ NamedBy(file, file.code_sections[n], target)
        \/ MentionedIn(file, file.code_sections[n], target)
        \/ file.code_sections[n].section_type = "Main" /\ target = T_main}

\* C14: when a disassembly by symbol ends without an error, a section that
\* answers to the target (its first instruction resets the label to the target
\* followed by a backtick suffix, one of its operands is the target, or it is
\* the MAIN section and the target is "main") is found and dumped.
C14_MatchingSectionIsFound ==
    /\ (pc = "symbol_dumped" /\ MatchingSections(ksmfile, symbol_dump.symbol) # {}) =>
            symbol_dump.found # 0
    /\ (pc = "term_dumped" /\ ~term_dump.config.disassemble
            /\ MatchingSections(ksmfile, term_dump.config.symbol) # {}) =>
            term_dump.out.visits # <<>>

\* The sections of the document of which an operand is the symbol asked for.
OperandMatches ==
    {n \in 1..Len(ksmfile.code_sections) :
        MentionedIn(ksmfile, ksmfile.code_sections[n], symbol_dump.symbol)}

\* The first of them in file order.
FirstOperandMatch == CHOOSE n \in OperandMatches : \A m \in OperandMatches : n <= m

RECURSIVE IndexBefore(_)
\* The index dump_code_by_symbol has accumulated over the sections before n.
IndexBefore(n) ==
    IF n <= 1 THEN 1 ELSE IndexBefore(n - 1) + Len(ksmfile.code_sections[n - 1].instructions)

RECURSIVE AddrBefore(_)
\* The address accumulated over the sections before n.
AddrBefore(n) ==
    IF n <= 1 THEN 0
    ELSE AddrBefore(n - 1) + SkipAddr(ksmfile, ksmfile.code_sections[n - 1].instructions)

\* C27: when several code sections match the symbol through an operand
\* string, the section dumped is the first of them in file order, and the
\* start index and start address handed to its dump are accumulated over the
\* sections strictly before it.
C27_FirstOperandMatchIsDumped ==
    (pc = "symbol_dumped" /\ Cardinality(OperandMatches) >= 2) =>
        /\ symbol_dump.found = FirstOperandMatch
        /\ symbol_dump.start_index = IndexBefore(FirstOperandMatch)
        /\ symbol_dump.start_addr = AddrBefore(FirstOperandMatch)

----------------------------------------------------------------------------
(* The info of a KSM document: get_info of output/ksm.rs, KSMFile::get_compiler *)
(* of ksm_reader and dump_ksm_info of lib.rs                                *)

\* String::from(m): a text of the program, kept whole.
Message(m) == <<m>>

\* get_info of output/ksm.rs, of the first constant of the pool if there is one.
get_info(arguments) ==
    IF Len(arguments) = 0 THEN Message("Unknown compiler")
    ELSE IF arguments[1].kind = "String"
         THEN IF StartsWith(arguments[1].text, "@") \/ Contains(arguments[1].text, Backtick)
              THEN Message("Compiled using official kOS compiler.")
              ELSE arguments[1].text
         ELSE Message("Unknown compiler 2")

\* KSMFile::get_compiler
get_compiler(file) ==
    LET arguments == file.arg_section.arguments
    IN IF Len(arguments) = 0 THEN Message("Unknown compiler. Not enough data.")
       ELSE IF arguments[1].kind = "String"
            THEN IF StartsWith(arguments[1].text, "@") \/ Contains(arguments[1].text, Backtick)
                 THEN Message("Compiled using internal kOS compiler.")
                 ELSE arguments[1].text
            ELSE Message("Unknown compiler.")

\* dump_ksm_info of lib.rs: the line that is printed, behind its two spaces.
dump_ksm_info(args_list) ==
    IF Len(args_list) = 0 THEN Message("  Unknown compiler. Not enough data.")
    ELSE IF args_list[1].kind = "String"
         THEN IF StartsWith(args_list[1].text, "@")
              THEN Message("  Compiled using internal kOS compiler.")
              ELSE <<" ", " ">> \o args_list[1].text
         ELSE Message("  Unknown compiler.")

T_kasm == <<"K", "A", "S", "M">>

\* The constants a pool may start with.
InfoValues ==
    {KString(T_at0013), KString(T_foo1), KString(T_foo), KString(T_kasm), KString(<<>>),
     KStringValue(T_at0013), KStringValue(T_foo), KInt16(7)}

MaxPool == 2

InitInfo ==
    /\ pc = "info_parsed"
    /\ ksmfile \in {[arg_section   |-> ArgumentSection(1, pool),
                    code_sections |-> <<>>] : pool \in SeqsUpTo(InfoValues, MaxPool)}
    /\ result = Idle
    /\ full_dump = Idle /\ symbol_dump = Idle /\ term_dump = Idle
    /\ kofile = Idle /\ ko_dump = Idle /\ contents = Idle /\ reader = Idle

\* One of the three ways the info of the document is made.
Info(by, info) ==
    /\ pc = "info_parsed"
    /\ result' = [by |-> by, info |-> info]
    /\ pc' = "info_made"
    /\ UNCHANGED <<ksmfile, full_dump, symbol_dump, term_dump, ko_vars, contents, reader>>

GetInfo == Info("get_info", get_info(ksmfile.arg_section.arguments))

GetCompiler == Info("get_compiler", get_compiler(ksmfile))

DumpKsmInfo == Info("dump_ksm_info", dump_ksm_info(ksmfile.arg_section.arguments))

NextInfo == GetInfo \/ GetCompiler \/ DumpKsmInfo

SpecInfo == InitInfo /\ [][NextInfo]_vars

\* The first constant of the pool is a String that starts with "@" or has a
\* backtick in it.
LooksCompilerMade(arguments) ==
    /\ Len(arguments) > 0
    /\ arguments[1].kind = "String"
    /\ StartsWith(arguments[1].text, "@") \/ Contains(arguments[1].text, Backtick)

\* A message that says the compiler is not known.
UnknownCompilerMessages ==
    {Message("Unknown compiler"), Message("Unknown compiler 2"),
     Message("Unknown compiler."), Message("Unknown compiler. Not enough data.")}

\* The info without the indentation it is printed with.
Unindented(info) ==
    IF info = <<>> THEN info
    ELSE IF Head(info) = " " THEN SubSeq(info, 3, Len(info))
    ELSE IF Head(info) = "  Compiled using internal kOS compiler."
         THEN Message("Compiled using internal kOS compiler.")
    ELSE IF Head(info) = "  Unknown compiler." THEN Message("Unknown compiler.")
    ELSE IF Head(info) = "  Unknown compiler. Not enough data."
         THEN Message("Unknown compiler. Not enough data.")
    ELSE info

\* C18: the info of a machine-code file is "Compiled using official kOS
\* compiler." when the first constant of the pool is a String that starts with
\* "@" or has a backtick in it, the text of the first constant when that is
\* any other String, and a message that the compiler is unknown when the first
\* constant is no String or the pool is empty.
C18_InfoFromFirstConstant ==
    pc = "info_made" =>
        LET arguments == ksmfile.arg_section.arguments
            info      == Unindented(result.info)
        IN IF LooksCompilerMade(arguments)
           THEN info = Message("Compiled using official kOS compiler.")
           ELSE IF Len(arguments) > 0 /\ arguments[1].kind = "String"
           THEN info = arguments[1].text
           ELSE info \in UnknownCompilerMessages

----------------------------------------------------------------------------
(* output/mod.rs and output/ko.rs: the disassembly of a function section   *)
(* of a KO file.  Indices into a table count from 0.                       *)

T_five == <<"f", "i", "v", "e">>
T_func == <<"_", "s", "t", "a", "r", "t">>
T_true == <<"t", "r", "u", "e">>
T_false == <<"f", "a", "l", "s", "e">>

kosvalue_str(value) ==
    CASE value.kind = "Null" -> <<"#">>
      [] value.kind = "ArgMarker" -> <<"@">>
      [] value.kind \in {"Bool", "BoolValue"} ->
            IF value.num = 1 THEN T_true ELSE T_false
      [] value.kind = "Int16" ->
            IF value.num < 0 THEN <<"-">> \o ToDigits(-value.num)
                             ELSE ToDigits(value.num)
      [] OTHER -> value.text

\* A string is written between double quotes, any other value as it is.
write_kosvalue(value) ==
    IF IsStringLike(value) THEN <<"\"">> \o kosvalue_str(value) \o <<"\"">>
                           ELSE kosvalue_str(value)

\* A table of a KO file that may be missing; get(i) is None past its end.
Table(items) == [present |-> TRUE, items |-> items]

Missing == [present |-> FALSE, items |-> <<>>]

InTable(table, i) == i >= 0 /\ i < Len(table.items)

Symbol(name_idx, sym_type) == [name_idx |-> name_idx, sym_type |-> sym_type]

ReldEntry(section_index, instr_index, operand_index, symbol_index) ==
    [section_index |-> section_index, instr_index |-> instr_index,
     operand_index |-> operand_index, symbol_index |-> symbol_index]

NoReloc == <<FALSE, 0>>

RECURSIVE get_relocated_loop(_, _, _, _, _, _)
\* Every entry of .reld is looked at; the last one for an operand stays.
get_relocated_loop(entries, k, section_index, instr_index, first_reloc, second_reloc) ==
    IF k > Len(entries) THEN <<first_reloc, second_reloc>>
    ELSE LET reld_entry == entries[k]
         IN IF reld_entry.section_index = section_index
                /\ reld_entry.instr_index = instr_index
            THEN IF reld_entry.operand_index = 1
                 THEN get_relocated_loop(entries, k + 1, section_index, instr_index,
                                         <<TRUE, reld_entry.symbol_index>>, second_reloc)
                 ELSE get_relocated_loop(entries, k + 1, section_index, instr_index,
                                         first_reloc, <<TRUE, reld_entry.symbol_index>>)
            ELSE get_relocated_loop(entries, k + 1, section_index, instr_index,
                                    first_reloc, second_reloc)

\* A get_relocated that finds no relocation for any operand.
get_relocated_Never(file, section_index, instr_index) == <<NoReloc, NoReloc>>

get_relocated(file, section_index, instr_index) ==
    IF ~file.reld.present THEN <<NoReloc, NoReloc>>
    ELSE get_relocated_loop(file.reld.items, 1, section_index, instr_index,
                            NoReloc, NoReloc)

Written(text) == [err |-> FALSE, text |-> text]

Failed == [err |-> TRUE, text |-> <<>>]

\* What dump_func_section writes for one operand: the name of the symbol of
\* its relocation, or else the value of .data at its index.
dump_operand(file, reloc, op) ==
    IF reloc[1]
    THEN IF ~file.symtab.present \/ ~file.symstrtab.present THEN Failed
         ELSE IF ~InTable(file.symtab, reloc[2]) THEN Failed
         ELSE LET sym == file.symtab.items[reloc[2] + 1]
              IN IF ~InTable(file.symstrtab, sym.name_idx) THEN Failed
                 ELSE IF sym.sym_type \in {"Func", "Section", "NoType"}
                      THEN Written(<<"<">> \o file.symstrtab.items[sym.name_idx + 1]
                                   \o <<">">>)
                      ELSE Written(<<>>)
    ELSE IF ~InTable(file.data, op) THEN Failed
         ELSE Written(write_kosvalue(file.data.items[op + 1]))

KOLine(i, instr, operands, complete) ==
    [index |-> i + 1, opcode |-> instr.opcode, ops |-> instr.ops,
     operands |-> operands, complete |-> complete]

RECURSIVE dump_func_section_loop(_, _, _, _)
\* i is the position of enumerate(), from 0.
dump_func_section_loop(file, func_section, i, lines) ==
    IF i >= Len(func_section.instructions) THEN [lines |-> lines, err |-> FALSE]
    ELSE
    LET instr  == func_section.instructions[i + 1]
        relocs == get_relocated(file, func_section.section_index, i)
        first  == IF Len(instr.ops) >= 1
                  THEN dump_operand(file, relocs[1], instr.ops[1]) ELSE Written(<<>>)
        second == IF Len(instr.ops) >= 2
                  THEN dump_operand(file, relocs[2], instr.ops[2]) ELSE Written(<<>>)
    IN  IF Len(instr.ops) = 0
        THEN dump_func_section_loop(file, func_section, i + 1,
                 Append(lines, KOLine(i, instr, <<>>, TRUE)))
        ELSE IF first.err
        THEN [lines |-> Append(lines, KOLine(i, instr, <<>>, FALSE)), err |-> TRUE]
        ELSE IF Len(instr.ops) = 1
        THEN dump_func_section_loop(file, func_section, i + 1,
                 Append(lines, KOLine(i, instr, <<first.text>>, TRUE)))
        ELSE IF second.err
        THEN [lines |-> Append(lines, KOLine(i, instr, <<first.text>>, FALSE)),
              err |-> TRUE]
        ELSE dump_func_section_loop(file, func_section, i + 1,
                 Append(lines, KOLine(i, instr, <<first.text, second.text>>, TRUE)))

\* The name of the section and the .data section are found first.
dump_func_section(file, func_section) ==
    IF ~func_section.has_name \/ ~file.data.present
    THEN [lines |-> <<>>, err |-> TRUE]
    ELSE dump_func_section_loop(file, func_section, 0, <<>>)

(* The KO files of the check *)

FuncSectionIdx == 3

OpAdd == 60     \* 0x3c
OpBscp == 90    \* 0x5a

KOData == Table(<<KString(T_five), KInt16(5), KNull>>)

DanglingDataIdx == Len(KOData.items)

KOInstrSet ==
    {Instr(OpAdd, <<>>), Instr(OpPush, <<0>>), Instr(OpPush, <<DanglingDataIdx>>),
     Instr(OpBscp, <<1, 0>>)}

MaxKOInstrs == 2

MaxRelds == 2

KOStrings == Table(<<<<>>, T_five, T_func>>)

KOSymTab == Table(<<Symbol(1, "NoType"), Symbol(2, "Object")>>)

KOSymTabs ==
    {KOSymTab,
     Table(<<Symbol(2, "Func"), Symbol(1, "File")>>),
     Table(<<Symbol(1, "Section"), Symbol(Len(KOStrings.items), "NoType")>>)}

KOTable(data, symtab, symstrtab, has_name) ==
    [data |-> data, symtab |-> symtab, symstrtab |-> symstrtab,
     has_name |-> has_name]

\* The tables of a file: all there, or one of them missing.
KOTables ==
    {KOTable(KOData, t, KOStrings, TRUE) : t \in KOSymTabs}
    \cup {KOTable(Missing, KOSymTab, KOStrings, TRUE),
          KOTable(KOData, Missing, KOStrings, TRUE),
          KOTable(KOData, KOSymTab, Missing, TRUE),
          KOTable(KOData, KOSymTab, KOStrings, FALSE)}

ReldEntries ==
    {ReldEntry(s, i, o, y) : s \in {FuncSectionIdx, FuncSectionIdx + 1},
                             i \in 0..(MaxKOInstrs - 1), o \in {1, 2},
                             y \in 0..2}

KOFiles ==
    {[data |-> t.data, symtab |-> t.symtab, symstrtab |-> t.symstrtab,
      reld |-> r,
      func_section |-> [section_index |-> FuncSectionIdx, has_name |-> t.has_name,
                        instructions |-> is]] :
        t \in KOTables,
        r \in {Missing} \cup {Table(es) : es \in SeqsUpTo(ReldEntries, MaxRelds)},
        is \in SeqsUpTo(KOInstrSet, MaxKOInstrs)}

InitKO ==
    /\ pc = "ko_parsed"
    /\ kofile \in KOFiles
    /\ ko_dump = [lines |-> <<>>, err |-> FALSE]
    /\ ksmfile = Idle /\ full_dump = Idle /\ symbol_dump = Idle /\ term_dump = Idle
    /\ contents = Idle /\ result = Idle /\ reader = Idle

\* --disassemble of a KO file, for its function section.
DumpFuncSection ==
    /\ pc = "ko_parsed"
    /\ ko_dump' = dump_func_section(kofile, kofile.func_section)
    /\ pc' = IF ko_dump'.err THEN "ko_failed" ELSE "ko_dumped"
    /\ UNCHANGED <<kofile, ksmfile, full_dump, symbol_dump, term_dump, byte_vars>>

NextKO == DumpFuncSection

SpecKO == InitKO /\ [][NextKO]_vars

\* The entries of .reld for an operand of an instruction of the section.
EntriesFor(i, p) ==
    {k \in 1..Len(kofile.reld.items) :
        /\ kofile.reld.items[k].section_index = kofile.func_section.section_index
        /\ kofile.reld.items[k].instr_index = i
        /\ kofile.reld.items[k].operand_index = p}

\* The names, between angle brackets, of the symbols these entries refer to.
SymbolNames(ks) ==
    {<<"<">> \o kofile.symstrtab.items[kofile.symtab.items[y + 1].name_idx + 1]
        \o <<">">> :
        y \in {z \in {kofile.reld.items[k].symbol_index : k \in ks} :
                /\ InTable(kofile.symtab, z)
                /\ InTable(kofile.symstrtab, kofile.symtab.items[z + 1].name_idx)}}

\* The operand p of line j has been written.
OperandWritten(j, p) ==
    /\ j <= Len(ko_dump.lines)
    /\ p <= Len(ko_dump.lines[j].operands)

\* C1: an operand of a function section's instruction that has a relocation
\* entry is written from the symbol table: what is written for it is the name
\* of a symbol that an entry for it refers to (or nothing, for a symbol that
\* is written without a name), and never the value that .data holds at the
\* operand's index.
C1_RelocationPrecedence ==
    pc \in {"ko_dumped", "ko_failed"} =>
        \A j \in 1..Len(ko_dump.lines) : \A p \in 1..Len(ko_dump.lines[j].operands) :
            EntriesFor(j - 1, p) # {} =>
                /\ ko_dump.lines[j].operands[p]
                       \in SymbolNames(EntriesFor(j - 1, p)) \cup {<<>>}
                /\ InTable(kofile.data, ko_dump.lines[j].ops[p]) =>
                       ko_dump.lines[j].operands[p]
                           # write_kosvalue(kofile.data.items[ko_dump.lines[j].ops[p] + 1])

\* C1's case: push with a valid index of .data and a relocation has been
\* written as the symbol <five>.
C1_Witness ==
    /\ pc = "ko_dumped"
    /\ OperandWritten(1, 1)
    /\ EntriesFor(0, 1) # {}
    /\ InTable(kofile.data, ko_dump.lines[1].ops[1])
    /\ ko_dump.lines[1].operands[1] = <<"<">> \o T_five \o <<">">>

\* The symbol that operand p of the instruction at position i (from 0) is
\* written from: the one of the relocation that get_relocated finds for it.
RelocatedSymbol(i, p) ==
    kofile.symtab.items[get_relocated(kofile, kofile.func_section.section_index, i)[p][2] + 1]

\* Operand p of the instruction at position i has a relocation to a symbol
\* of this type, and the tables that its name is looked up in are there.
RelocatedTo(i, p, sym_type) ==
    LET reloc == get_relocated(kofile, kofile.func_section.section_index, i)[p]
    IN /\ reloc[1]
       /\ kofile.symtab.present /\ kofile.symstrtab.present
       /\ InTable(kofile.symtab, reloc[2])
       /\ InTable(kofile.symstrtab, RelocatedSymbol(i, p).name_idx)
       /\ RelocatedSymbol(i, p).sym_type = sym_type

\* C12: an instruction with an operand whose relocation refers to a symbol
\* of type File is not written as a complete line: the dump of the section
\* fails at that instruction.
C12_FileSymbolIsAnError ==
    pc \in {"ko_dumped", "ko_failed"} =>
        \A j \in 1..Len(ko_dump.lines) :
            (\E p \in 1..Len(ko_dump.lines[j].ops) : RelocatedTo(j - 1, p, "File")) =>
                ko_dump.err /\ ~ko_dump.lines[j].complete

----------------------------------------------------------------------------
(* argument/mod.rs and lib.rs: the argument section read from the bytes of *)
(* a KSM file through a peekable iterator.  pos is the number of bytes the *)
(* iterator has handed out.                                                *)

Percent == 37    \* b'%'

Some(v, pos) == [some |-> TRUE, value |-> v, pos |-> pos]

Nothing(pos) == [some |-> FALSE, value |-> None, pos |-> pos]

Arg(kind, text, num) == [kind |-> kind, text |-> text, num |-> num]

\* n of the bytes are taken with next(); None when the bytes run out.
read_bytes(bytes, pos, n) ==
    IF pos + n <= Len(bytes)
    THEN Some(SubSeq(bytes, pos + 1, pos + n), pos + n)
    ELSE Nothing(Len(bytes))

\* from_le_bytes for i16 and i32: the last byte carries the sign.
from_le_bytes(arr) ==
    LET RECURSIVE unsigned(_)
        unsigned(k) == IF k > Len(arr) - 1 THEN 0 ELSE arr[k] + 256 * unsigned(k + 1)
        top == arr[Len(arr)]
        high == IF top >= 128 THEN top - 256 ELSE top
        RECURSIVE scale(_)
        scale(k) == IF k = 0 THEN 1 ELSE 256 * scale(k - 1)
    IN unsigned(1) + high * scale(Len(arr) - 1)

\* read_boolean, read_byte, read_int16, ... read_scalar_double_value: the
\* bytes of a number of n bytes.  A float keeps its bytes.
read_number(bytes, pos, kind, n) ==
    LET r == read_bytes(bytes, pos, n)
    IN IF ~r.some THEN r
       ELSE IF kind \in {"Bool", "BoolValue"}
            THEN Some(Arg(kind, <<>>, IF r.value[1] # 0 THEN 1 ELSE 0), r.pos)
       ELSE IF kind \in {"Byte", "Int16", "Int32", "ScalarInt"}
            THEN Some(Arg(kind, <<>>, from_le_bytes(r.value)), r.pos)
       ELSE Some(Arg(kind, r.value, 0), r.pos)

\* The length byte, then as many bytes, each pushed as a char.
read_string(bytes, pos) ==
    LET len == read_bytes(bytes, pos, 1)
    IN IF ~len.some THEN len
       ELSE LET r == read_bytes(bytes, len.pos, len.value[1])
            IN IF ~r.some THEN r ELSE Some(Arg("String", r.value, 0), r.pos)

\* A value string read as a plain string: the tag 8 would give the variant of tag 7.
read_string_value_AsString(bytes, pos) == read_string(bytes, pos)

read_string_value(bytes, pos) ==
    LET r == read_string(bytes, pos)
    IN IF ~r.some THEN r ELSE Some(Arg("StringValue", r.value.text, 0), r.pos)

RECURSIVE String_len(_)
\* s.len() of a String made of chars: a char from 0x80 on takes two bytes.
String_len(text) ==
    IF text = <<>> THEN 0
    ELSE (IF Head(text) < 128 THEN 1 ELSE 2) + String_len(Tail(text))

ArgResult(err, arg, len, pos) ==
    [err |-> err, msg |-> <<>>, arg |-> arg, len |-> len, pos |-> pos]

\* The two errors of read_argument.
ReachedEOF == "Reached EOF before the argument section eneded"

UnrecognizedType == "Unrecognized argument type encountered in section"

\* Err(msg.into())
ArgError(msg, pos) == [err |-> TRUE, msg |-> msg, arg |-> None, len |-> 0, pos |-> pos]

\* argument_len as read_argument leaves it for a value of this type.
read_argument_len(arg_type, v) ==
    (CASE arg_type \in {1, 2, 11} -> 1
       [] arg_type = 3 -> 2
       [] arg_type \in {4, 5, 9} -> 4
       [] arg_type \in {6, 10} -> 8
       [] OTHER -> 0)
    + (IF IsStringLike(v) THEN String_len(v.text) ELSE 0)

read_argument(bytes, pos) ==
    LET t == read_bytes(bytes, pos, 1)
        arg_type == t.value[1]
        possible_argument ==
            CASE arg_type = 0 -> Some(KNull, t.pos)
              [] arg_type = 1 -> read_number(bytes, t.pos, "Bool", 1)
              [] arg_type = 2 -> read_number(bytes, t.pos, "Byte", 1)
              [] arg_type = 3 -> read_number(bytes, t.pos, "Int16", 2)
              [] arg_type = 4 -> read_number(bytes, t.pos, "Int32", 4)
              [] arg_type = 5 -> read_number(bytes, t.pos, "Float", 4)
              [] arg_type = 6 -> read_number(bytes, t.pos, "Double", 8)
              [] arg_type = 7 -> read_string(bytes, t.pos)
              [] arg_type = 8 -> Some(KArgMarker, t.pos)
              [] arg_type = 9 -> read_number(bytes, t.pos, "ScalarInt", 4)
              [] arg_type = 10 -> read_number(bytes, t.pos, "ScalarDouble", 8)
              [] arg_type = 11 -> read_number(bytes, t.pos, "BoolValue", 1)
              [] arg_type = 12 -> read_string_value(bytes, t.pos)
              [] OTHER -> Nothing(t.pos)
        Matched(possible) ==
            IF ~possible.some THEN ArgError(ReachedEOF, possible.pos)
            ELSE ArgResult(FALSE, possible.value,
                           read_argument_len(arg_type, possible.value), possible.pos)
    IN IF ~t.some THEN ArgError(ReachedEOF, t.pos)
       ELSE IF arg_type \notin 0..12 THEN ArgError(UnrecognizedType, t.pos)
       ELSE Matched(possible_argument)

\* HashMap::insert: the value of a key that is there is replaced.
Insert(map, k, v) == [x \in (DOMAIN map) \cup {k} |-> IF x = k THEN v ELSE map[x]]

EmptyMap == [x \in {} |-> 0]

HeaderLen == 6

ArgsRead(status, index_bytes, args_list, map_index_to_arg, map_arg_to_index, pos) ==
    [status |-> status, index_bytes |-> index_bytes, args_list |-> args_list,
     map_index_to_arg |-> map_index_to_arg, map_arg_to_index |-> map_arg_to_index,
     pos |-> pos]

RECURSIVE read_arguments_loop(_, _, _, _, _, _, _, _)
\* peek().unwrap() panics when the bytes have run out.
read_arguments_loop(bytes, pos, index_bytes, args_list, map_index_to_arg, map_arg_to_index, current_index, current_argument_number) ==
    IF pos >= Len(bytes)
    THEN ArgsRead("panic", index_bytes, args_list, map_index_to_arg,
                  map_arg_to_index, pos)
    ELSE IF bytes[pos + 1] = Percent
    THEN ArgsRead("ok", index_bytes, args_list, map_index_to_arg,
                  map_arg_to_index, pos)
    ELSE LET r == read_argument(bytes, pos)
         IN IF r.err
            THEN ArgsRead("err", index_bytes, args_list, map_index_to_arg,
                          map_arg_to_index, r.pos)
            ELSE read_arguments_loop(bytes, r.pos, index_bytes,
                     Append(args_list, r.arg),
                     Insert(map_index_to_arg, current_index, current_argument_number),
                     Insert(map_arg_to_index, current_argument_number, current_index),
                     current_index + r.len, current_argument_number + 1)

\* Six bytes are skipped, the next one is the width of an index.
read_arguments(bytes) ==
    IF Len(bytes) <= HeaderLen
    THEN ArgsRead("panic", 0, <<>>, EmptyMap, EmptyMap, Len(bytes))
    ELSE read_arguments_loop(bytes, HeaderLen + 1, bytes[HeaderLen + 1],
                             <<>>, EmptyMap, EmptyMap, FirstArgIndex, 0)

(* The argument sections of the check *)

\* "k", 3, "XE" and "%A"
KSMHeader == <<107, 3, 88, 69, 37, 65>>

ArgEncodings ==
    {<<0>>, <<1, 1>>, <<2, 255>>, <<3, 7, 0>>, <<4, 1, 0, 0, 0>>,
     <<5, 0, 0, 128, 63>>, <<6, 0, 0, 0, 0, 0, 0, 240, 63>>,
     <<7, 2, 97, 98>>, <<7, 1, 200>>, <<8>>, <<9, 2, 0, 0, 0>>,
     <<10, 0, 0, 0, 0, 0, 0, 240, 63>>, <<11, 0>>, <<12, 1, 97>>,
     <<13>>, <<255>>, <<7, 9, 97>>}

MaxArgs == 2

RECURSIVE Concat(_)
Concat(seqs) == IF seqs = <<>> THEN <<>> ELSE Head(seqs) \o Concat(Tail(seqs))

\* The section ends with the "%F" of the first code section, or the file ends
\* before that.
ArgSectionBytes ==
    {KSMHeader \o <<1>> \o Concat(as) \o tail :
        as \in SeqsUpTo(ArgEncodings, MaxArgs), tail \in {<<Percent, 70>>, <<>>}}
    \cup {SubSeq(KSMHeader, 1, 3)}

InitPool ==
    /\ pc = "pool_bytes"
    /\ contents \in ArgSectionBytes
    /\ result = Idle /\ reader = Idle
    /\ ksmfile = Idle /\ full_dump = Idle /\ symbol_dump = Idle /\ term_dump = Idle
    /\ kofile = Idle /\ ko_dump = Idle

\* read_argument for the first argument of the section.
ReadArgument ==
    /\ pc = "pool_bytes"
    /\ Len(contents) > HeaderLen + 1
    /\ result' = read_argument(contents, HeaderLen + 1)
    /\ pc' = "argument_read"
    /\ UNCHANGED <<contents, reader, ksmfile, full_dump, symbol_dump, term_dump, ko_vars>>

ReadArguments ==
    /\ pc = "pool_bytes"
    /\ result' = read_arguments(contents)
    /\ pc' = "arguments_read"
    /\ UNCHANGED <<contents, reader, ksmfile, full_dump, symbol_dump, term_dump, ko_vars>>

NextPool == ReadArgument \/ ReadArguments

SpecPool == InitPool /\ [][NextPool]_vars

\* The payload of a constant, after its tag byte.
PayloadBytes(v) ==
    CASE v.kind \in {"Null", "ArgMarker"} -> 0
      [] v.kind \in {"Bool", "Byte", "BoolValue"} -> 1
      [] v.kind = "Int16" -> 2
      [] v.kind \in {"Int32", "Float", "ScalarInt"} -> 4
      [] v.kind \in {"Double", "ScalarDouble"} -> 8
      [] v.kind \in {"String", "StringValue"} -> 1 + Len(v.text)

EncodedByteLength(v) == 1 + PayloadBytes(v)

\* C7: the length that decoding one constant reports is 1 for the tag byte
\* plus the payload of its type, and it is the number of bytes that the
\* decoding has taken.
C7_ReportedLengthIsBytesConsumed ==
    (pc = "argument_read" /\ ~result.err) =>
        /\ result.len = EncodedByteLength(result.arg)
        /\ result.len = result.pos - (HeaderLen + 1)

\* The variant that each type tag stands for.
VariantOfTag ==
    [tag \in 0..12 |->
        <<"Null", "Bool", "Byte", "Int16", "Int32", "Float", "Double", "String",
          "ArgMarker", "ScalarInt", "ScalarDouble", "BoolValue", "StringValue">>[tag + 1]]

\* The type tag of the constant that ReadArgument has decoded.
FirstTag == contents[HeaderLen + 2]

\* The bytes behind the type tag.
BytesBehindTag == Len(contents) - (HeaderLen + 2)

\* The payload of the constant is there: the 8 bytes of the widest number, or
\* the length byte of a string and as many bytes as it says.
PayloadIsThere ==
    IF FirstTag \in {7, 12}
    THEN BytesBehindTag >= 1 /\ BytesBehindTag >= 1 + contents[HeaderLen + 3]
    ELSE BytesBehindTag >= 8

\* C17: a constant whose type tag is not one of 0..12 is not decoded: the
\* result is the error of an unrecognized type and no byte behind the tag is
\* taken.  A constant with a tag in 0..12 that has its payload is decoded to
\* the variant of that tag, and no variant comes from another tag.
C17_TagDecidesVariant ==
    pc = "argument_read" =>
        IF FirstTag \notin 0..12
        THEN /\ result.err /\ result.msg = UnrecognizedType
             /\ result.pos = HeaderLen + 2
        ELSE /\ ~result.err => result.arg.kind = VariantOfTag[FirstTag]
             /\ result.err => result.msg = ReachedEOF
             /\ PayloadIsThere => ~result.err

\* C17's case: a tag of 13 has been refused, or a tag of 12 has been decoded
\* to a StringValue.
C17_Witness ==
    /\ pc = "argument_read"
    /\ \/ FirstTag = 13 /\ result.err /\ result.msg = UnrecognizedType
       \/ FirstTag = 12 /\ ~result.err /\ result.arg.kind = "StringValue"

\* C5: the first constant of a parsed pool has index 3, every later one
\* the index of the one before it plus the encoded length of that one, so
\* the indices grow strictly.
C5_IndicesAreCumulativeLengths ==
    (pc = "arguments_read" /\ result.status = "ok") =>
        \A k \in 0..(Len(result.args_list) - 1) :
            IF k = 0 THEN result.map_arg_to_index[k] = FirstArgIndex
            ELSE /\ result.map_arg_to_index[k]
                        = result.map_arg_to_index[k - 1]
                          + EncodedByteLength(result.args_list[k])
                 /\ result.map_arg_to_index[k] > result.map_arg_to_index[k - 1]

\* C6: the two maps of a parsed pool are inverse to each other: the index of
\* the i-th constant leads back to i.
C6_MapsAreInverse ==
    (pc = "arguments_read" /\ result.status = "ok") =>
        \A i \in 0..(Len(result.args_list) - 1) :
            /\ result.map_arg_to_index[i] \in DOMAIN result.map_index_to_arg
            /\ result.map_index_to_arg[result.map_arg_to_index[i]] = i

----------------------------------------------------------------------------
(* instruction/mod.rs with ksm_reader/mod.rs, and opcode/mod.rs: one       *)
(* instruction read from the bytes of a code section.                      *)

ZeroOperandOpcodes ==
    {49, 50, 51, 53, 56, 57, 60, 61, 62, 63, 64, 65, 66, 67, 68, 69, 70, 71, 72,
     73, 74, 75, 79, 80, 81, 82, 84, 85, 86, 95, 96, 97, 98}

OneOperandOpcodes ==
    {52, 54, 55, 58, 59, 77, 78, 87, 88, 89, 91, 92, 94, 206, 240}

TwoOperandOpcodes == {76, 83, 90, 93, 205}

\* What Instr::opcode_num_operands answers for an opcode it has no arm for.
BogusOperands == 255

\* Instr::opcode_num_operands
opcode_num_operands(opcode) ==
    IF opcode \in ZeroOperandOpcodes THEN 0
    ELSE IF opcode \in OneOperandOpcodes THEN 1
    ELSE IF opcode \in TwoOperandOpcodes THEN 2
    ELSE BogusOperands

\* An arity table that lacks the arm of the label reset.
get_num_operands_NoLbrt(opcode) ==
    IF opcode \in ZeroOperandOpcodes THEN 0
    ELSE IF opcode \in OneOperandOpcodes \ {OpLbrt} THEN 1
    ELSE IF opcode \in TwoOperandOpcodes THEN 2
    ELSE -1

\* get_num_operands of opcode/mod.rs
get_num_operands(opcode) ==
    IF opcode \in ZeroOperandOpcodes THEN 0
    ELSE IF opcode \in OneOperandOpcodes THEN 1
    ELSE IF opcode \in TwoOperandOpcodes THEN 2
    ELSE -1

\* What a read of KSMFileReader gives: Ok(value) or Err, or a panic, and the
\* current_index it leaves.
Read(status, value, pos) == [status |-> status, value |-> value, pos |-> pos]

\* A next that hands out a zero when no byte is left.
next_ZeroPadded(bytes, pos) ==
    Read("ok", IF pos < Len(bytes) THEN bytes[pos + 1] ELSE 0, pos + 1)

\* KSMFileReader::next: current_index moves on, byte or no byte.
next(bytes, pos) ==
    IF pos < Len(bytes) THEN Read("ok", bytes[pos + 1], pos + 1)
                        ELSE Read("err", 0, pos + 1)

\* KSMFileReader::peek
peek(bytes, pos) ==
    IF pos < Len(bytes) THEN Read("ok", bytes[pos + 1], pos)
                        ELSE Read("err", 0, pos)

\* KSMFileReader::pop
pop(bytes, pos, n) ==
    IF pos + n <= Len(bytes) THEN Read("ok", 0, pos + n) ELSE Read("err", 0, pos + n)

\* KSMFileReader::eof
eof(bytes, pos) == pos >= Len(bytes) - 1

RECURSIVE next_count(_, _, _)
\* KSMFileReader::next_count: the bytes read, as a sequence.
next_count(bytes, pos, count) ==
    IF count = 0 THEN Read("ok", <<>>, pos)
    ELSE LET b == next(bytes, pos)
         IN IF b.status # "ok" THEN b
            ELSE LET rest == next_count(bytes, b.pos, count - 1)
                 IN IF rest.status # "ok" THEN rest
                    ELSE Read("ok", <<b.value>> \o rest.value, rest.pos)

\* KSMFileReader::peek_count: current_index is put back when all were there.
peek_count(bytes, pos, count) ==
    LET r == next_count(bytes, pos, count)
    IN IF r.status = "ok" THEN Read("ok", r.value, pos) ELSE r

RECURSIVE from_be_bytes(_)
from_be_bytes(arr) ==
    IF arr = <<>> THEN 0
    ELSE arr[Len(arr)] + 256 * from_be_bytes(SubSeq(arr, 1, Len(arr) - 1))

RECURSIVE from_le_bytes_unsigned(_)
from_le_bytes_unsigned(arr) ==
    IF arr = <<>> THEN 0 ELSE Head(arr) + 256 * from_le_bytes_unsigned(Tail(arr))

\* KSMFileReader::read_uint16_be
read_uint16_be(bytes, pos) ==
    LET r == next_count(bytes, pos, 2)
    IN IF r.status # "ok" THEN r ELSE Read("ok", from_be_bytes(r.value), r.pos)

\* The arm of three bytes: read_uint16_be()? as u32 * 0x010000 + next()? as u32
ThreeBytes(hi, lo) == hi * 65536 + lo

\* The value read_bytes_into_u32 makes of the bytes of one address: one byte
\* as it is, two and four bytes by from_be_bytes, three bytes by their arm.
AddressValue(arr) ==
    IF Len(arr) = 3 THEN ThreeBytes(from_be_bytes(SubSeq(arr, 1, 2)), arr[3])
    ELSE from_be_bytes(arr)

\* KSMFileReader::read_bytes_into_u32: 1 to 4 bytes, the first one the highest.
\* Every arm takes its bytes one after the other through next() (next,
\* read_uint16_be, read_uint16_be and next, read_uint32_be), and so stops at
\* the first byte that is missing, as next_count does.
read_bytes_into_u32(bytes, pos, width) ==
    IF width = 0 THEN Read("panic", 0, pos)
    ELSE IF width > 4 THEN Read("err", 0, pos)
    ELSE LET r == next_count(bytes, pos, width)
         IN IF r.status # "ok" THEN r ELSE Read("ok", AddressValue(r.value), r.pos)

\* Instr::new
NewInstr(opcode, operand_width, num_operands, operands) ==
    [opcode |-> opcode, operand_width |-> operand_width,
     num_operands |-> num_operands, ops |-> operands]

\* The loop of Instr::read: read_argument_address for every operand.  The
\* first next() that finds no byte leaves current_index behind the end.
Instr_read_operands(bytes, pos, width, num_operands) ==
    IF num_operands = 0 THEN Read("ok", <<>>, pos)
    ELSE IF width = 0 THEN Read("panic", 0, pos)
    ELSE IF width > 4 THEN Read("err", 0, pos)
    ELSE IF pos + num_operands * width <= Len(bytes)
    THEN Read("ok",
              [k \in 1..num_operands |->
                  AddressValue(SubSeq(bytes, pos + (k - 1) * width + 1,
                                      pos + k * width))],
              pos + num_operands * width)
    ELSE Read("err", 0, Len(bytes) + 1)

\* Instr::read
Instr_read(bytes, pos, arg_address_bytes) ==
    LET opcode == next(bytes, pos)
        num_operands == opcode_num_operands(opcode.value)
        operands == Instr_read_operands(bytes, opcode.pos, arg_address_bytes,
                                        num_operands)
    IN IF opcode.status # "ok" THEN opcode
       ELSE IF operands.status # "ok" THEN operands
       ELSE Read("ok", NewInstr(opcode.value, arg_address_bytes, num_operands,
                                operands.value), operands.pos)

\* read_bytes_as_i32 of opcode/mod.rs: the first byte is the lowest; 2 and 4
\* bytes carry a sign.
read_bytes_as_i32(bytes, pos, data_size) ==
    LET r == read_bytes(bytes, pos, data_size)
    IN IF ~r.some THEN r
       ELSE IF data_size \in {1, 3} THEN Some(from_le_bytes_unsigned(r.value), r.pos)
       ELSE IF data_size \in {2, 4} THEN Some(from_le_bytes(r.value), r.pos)
       ELSE Nothing(r.pos)

\* read_instr of opcode/mod.rs: NoOperand, SingleOperand or DoubleOperand.
read_instr(bytes, pos, index_bytes) ==
    LET opcode == read_bytes(bytes, pos, 1)
        num_operands == get_num_operands(opcode.value[1])
        arg1 == read_bytes_as_i32(bytes, opcode.pos, index_bytes)
        arg2 == read_bytes_as_i32(bytes, arg1.pos, index_bytes)
    IN IF ~opcode.some THEN opcode
       ELSE IF num_operands = 0 THEN Some(Instr(opcode.value[1], <<>>), opcode.pos)
       ELSE IF num_operands = 1
            THEN IF ~arg1.some THEN arg1
                 ELSE Some(Instr(opcode.value[1], <<arg1.value>>), arg1.pos)
       ELSE IF num_operands = 2
            THEN IF ~arg1.some THEN arg1
                 ELSE IF ~arg2.some THEN arg2
                 ELSE Some(Instr(opcode.value[1], <<arg1.value, arg2.value>>), arg2.pos)
       ELSE Nothing(opcode.pos)

(* The instruction bytes of the check *)

OpCall == 76    \* 0x4c

KnownOpcodes == ZeroOperandOpcodes \cup OneOperandOpcodes \cup TwoOperandOpcodes

MaxOperandBytes == 4

AddressWidths == {1, 2, 3}

\* An opcode and the bytes behind it: a few, or enough for 255 operands.
InstrBytes ==
    {<<op>> \o Repeat(fill, n) :
        op \in {OpNop, OpPush, OpCall, OpLbrt, 0, 255},
        fill \in {1, 127},
        n \in (0..MaxOperandBytes) \cup {BogusOperands * w : w \in AddressWidths}}

InitInstr ==
    /\ pc = "instr_bytes"
    /\ contents \in InstrBytes
    /\ reader \in {[current_index |-> 0, arg_address_bytes |-> w] : w \in AddressWidths}
    /\ result = Idle
    /\ ksmfile = Idle /\ full_dump = Idle /\ symbol_dump = Idle /\ term_dump = Idle
    /\ kofile = Idle /\ ko_dump = Idle

\* Instr::read at the cursor of the reader.
InstrRead ==
    /\ pc = "instr_bytes"
    /\ result' = Instr_read(contents, reader.current_index, reader.arg_address_bytes)
    /\ reader' = [reader EXCEPT !.current_index = result'.pos]
    /\ pc' = "instr_read"
    /\ UNCHANGED <<contents, ksmfile, full_dump, symbol_dump, term_dump, ko_vars>>

\* read_instr of opcode/mod.rs on the same bytes, with the same width.
ReadInstr ==
    /\ pc = "instr_bytes"
    /\ result' = read_instr(contents, reader.current_index, reader.arg_address_bytes)
    /\ reader' = [reader EXCEPT !.current_index = result'.pos]
    /\ pc' = "read_instr_done"
    /\ UNCHANGED <<contents, ksmfile, full_dump, symbol_dump, term_dump, ko_vars>>

NextInstr == InstrRead \/ ReadInstr

SpecInstr == InitInstr /\ [][NextInstr]_vars

\* C8: an instruction that has been decoded has 0, 1 or 2 operands, as its
\* opcode alone says; for an opcode byte that is not in the opcode table the
\* decoding is an error that yields no instruction and takes no byte after
\* the opcode.
C8_UnknownOpcodeIsError ==
    /\ pc = "instr_read" =>
          IF contents[1] \in KnownOpcodes
          THEN result.status = "ok" =>
                  /\ Len(result.value.ops) \in {0, 1, 2}
                  /\ Len(result.value.ops) = opcode_num_operands(contents[1])
          ELSE result.status = "err" /\ Min(reader.current_index, Len(contents)) = 1
    /\ pc = "read_instr_done" =>
          IF contents[1] \in KnownOpcodes
          THEN result.some =>
                  /\ Len(result.value.ops) \in {0, 1, 2}
                  /\ Len(result.value.ops) = get_num_operands(contents[1])
          ELSE ~result.some /\ Min(reader.current_index, Len(contents)) = 1


----------------------------------------------------------------------------
(* ksm_reader/mod.rs: the reads of KSMFileReader, called one after another *)
(* on a buffer, and read_string of argument/mod.rs on the same bytes.      *)

\* KSMFileReader::read_int16: two bytes through next(), the first the lowest.
read_int16(bytes, pos) ==
    LET Number(r) == IF r.status # "ok" THEN r
                     ELSE Read("ok", from_le_bytes(r.value), r.pos)
    IN Number(next_count(bytes, pos, 2))

\* KSMFileReader::read_uint32: four bytes through next(), the first the lowest.
read_uint32(bytes, pos) ==
    LET Number(r) == IF r.status # "ok" THEN r
                     ELSE Read("ok", from_le_bytes_unsigned(r.value), r.pos)
    IN Number(next_count(bytes, pos, 4))

\* KSMFileReader::read_double: eight bytes through next(); the float keeps
\* its bytes.
read_double(bytes, pos) == next_count(bytes, pos, 8)

\* KSMFileReader::read_string: the length byte, then next() for every char.
KSMFileReader_read_string(bytes, pos) ==
    LET Chars(len) == IF len.status # "ok" THEN len
                      ELSE next_count(bytes, len.pos, len.value)
    IN Chars(next(bytes, pos))

\* What one call did: the read, its argument, current_index before the call,
\* and the outcome with the current_index it left.
Called(op, n, before, r) ==
    [op |-> op, n |-> n, before |-> before,
     status |-> r.status, value |-> r.value, pos |-> r.pos]

\* An Option of argument/mod.rs as an outcome of a read.
FromOption(o) ==
    Read(IF o.some THEN "ok" ELSE "err", IF o.some THEN o.value.text ELSE 0, o.pos)

CursorBytes == {0, 1, 2, 97}

MaxBuf == 4

\* How far behind the end of the buffer a cursor is still read from.
MaxOvershoot == 1

MaxCount == 3

CursorBuffers ==
    SeqsUpTo(CursorBytes, MaxBuf) \cup {Repeat(3, 8), Repeat(1, 9)}

NotCalled == Called("none", 0, 0, Read("ok", 0, 0))

InitCursor ==
    /\ pc = "cursor"
    /\ contents \in CursorBuffers
    /\ reader = [current_index |-> 0, arg_address_bytes |-> 1]
    /\ result = NotCalled
    /\ ksmfile = Idle /\ full_dump = Idle /\ symbol_dump = Idle /\ term_dump = Idle
    /\ kofile = Idle /\ ko_dump = Idle

\* One call on the reader: the outcome is kept and current_index is where the
\* call left it.
Call(op, n, r) ==
    /\ pc = "cursor"
    /\ reader.current_index <= Len(contents) + MaxOvershoot
    /\ result' = Called(op, n, reader.current_index, r)
    /\ reader' = [reader EXCEPT !.current_index = r.pos]
    /\ UNCHANGED <<pc, contents, ksmfile, full_dump, symbol_dump, term_dump, ko_vars>>

CallNext == Call("next", 1, next(contents, reader.current_index))

CallPeek == Call("peek", 1, peek(contents, reader.current_index))

CallPop == \E n \in 0..MaxCount : Call("pop", n, pop(contents, reader.current_index, n))

CallNextCount ==
    \E n \in 0..MaxCount :
        Call("next_count", n, next_count(contents, reader.current_index, n))

CallPeekCount ==
    \E n \in 0..MaxCount :
        Call("peek_count", n, peek_count(contents, reader.current_index, n))

CallReadInt16 == Call("read_int16", 2, read_int16(contents, reader.current_index))

CallReadUint32 == Call("read_uint32", 4, read_uint32(contents, reader.current_index))

CallReadDouble == Call("read_double", 8, read_double(contents, reader.current_index))

CallReadString ==
    Call("read_string", 0, KSMFileReader_read_string(contents, reader.current_index))

\* read_string of argument/mod.rs; an iterator never stands behind the end.
CallArgumentReadString ==
    /\ reader.current_index <= Len(contents)
    /\ Call("argument_read_string", 0,
            FromOption(read_string(contents, reader.current_index)))

NextCursor ==
    \/ CallNext \/ CallPeek \/ CallPop \/ CallNextCount \/ CallPeekCount
    \/ CallReadInt16 \/ CallReadUint32 \/ CallReadDouble
    \/ CallReadString \/ CallArgumentReadString

SpecCursor == InitCursor /\ [][NextCursor]_vars

\* The bytes left in the buffer before the last call: none behind its end.
Remaining ==
    IF result.before < Len(contents) THEN Len(contents) - result.before ELSE 0

\* The bytes the last call needs: its count, or for a string the length byte
\* and as many bytes as it says.
Needed ==
    IF result.op \in {"read_string", "argument_read_string"}
    THEN IF Remaining >= 1 THEN 1 + contents[result.before + 1] ELSE 1
    ELSE result.n

\* The bytes of the buffer that a call that needs k bytes stands before.
Ahead(k) == SubSeq(contents, result.before + 1, result.before + k)

\* C15: a read that needs more bytes than the buffer has left fails, and a
\* read that succeeds has been given the bytes of the buffer: next() its one
\* byte, next_count(n) its n bytes, a fixed-width read the number its bytes
\* make up, a string exactly as many chars as its length byte says.
C15_ShortReadsFail ==
    result.op # "none" =>
        /\ Remaining < Needed => result.status = "err"
        /\ (result.status = "ok" /\ result.op = "next") => result.value = Ahead(1)[1]
        /\ (result.status = "ok" /\ result.op \in {"next_count", "read_double"}) =>
               result.value = Ahead(result.n)
        /\ (result.status = "ok" /\ result.op = "read_int16") =>
               result.value = from_le_bytes(Ahead(2))
        /\ (result.status = "ok" /\ result.op = "read_uint32") =>
               result.value = from_le_bytes_unsigned(Ahead(4))
        /\ (result.status = "ok" /\ result.op \in {"read_string", "argument_read_string"}) =>
               result.value = Tail(Ahead(Needed))

\* C15's case: a string whose length byte asks for more chars than are left
\* has failed, and so has a next() at the end of a buffer that is not empty.
C15_Witness ==
    \/ /\ result.op = "read_string"
       /\ Remaining >= 2
       /\ Needed > Remaining
       /\ result.status = "err"
    \/ /\ result.op = "next"
       /\ Len(contents) > 0 /\ Remaining = 0
       /\ result.status = "err"

\* C16: after peek() and after peek_count(n) the read position is where it was
\* before the call, whether bytes were returned or not.
C16_PeeksDoNotAdvance ==
    result.op \in {"peek", "peek_count"} => reader.current_index = result.before
----------------------------------------------------------------------------
(* ksm_reader/mod.rs and ksm_reader/sections.rs: a KSM file read from its  *)
(* bytes with KSMFileReader.                                               *)

\* An Instr::size that counts the opcode alone.
Instr_size_OpcodeOnly(instr) == 1

\* Instr::size, a u8 (a debug build panics where the u8 would wrap).
Instr_size_of(instr) == (1 + instr.operand_width * instr.num_operands) % 256

\* Argument::read is not among the sources: a constant is its tag byte and
\* the payload of its type, as read_argument of argument/mod.rs decodes it.
Argument_read(bytes, pos) ==
    LET Decoded(r) == IF r.err THEN Read("err", None, r.pos)
                               ELSE Read("ok", r.arg, r.pos)
    IN Decoded(read_argument(bytes, pos))

RECURSIVE ArgumentSection_read_loop(_, _, _)
ArgumentSection_read_loop(bytes, pos, argument_list) ==
    LET p == peek(bytes, pos)
        Push(a) ==
            IF a.status # "ok" THEN a
            ELSE ArgumentSection_read_loop(bytes, a.pos, Append(argument_list, a.value))
    IN IF p.status # "ok" THEN p
       ELSE IF p.value = Percent THEN Read("ok", argument_list, pos)
       ELSE Push(Argument_read(bytes, pos))

\* ArgumentSection::read
ArgumentSection_read(bytes, pos) ==
    LET addr_bytes == next(bytes, pos)
        Section(l) ==
            IF l.status # "ok" THEN l
            ELSE Read("ok", [addr_bytes |-> addr_bytes.value,
                             argument_list |-> l.value], l.pos)
    IN IF addr_bytes.status # "ok" THEN addr_bytes
       ELSE Section(ArgumentSection_read_loop(bytes, addr_bytes.pos, <<>>))

\* next()? != first || next()? != second, as the sections open.
expect_marker(bytes, pos, second) ==
    LET a == next(bytes, pos)
        b == next(bytes, a.pos)
    IN IF a.status # "ok" THEN a
       ELSE IF a.value # Percent THEN Read("err", 0, a.pos)
       ELSE IF b.status # "ok" THEN b
       ELSE IF b.value # second THEN Read("err", 0, b.pos)
       ELSE Read("ok", 0, b.pos)

RECURSIVE read_section_type_loop(_, _, _)
read_section_type_loop(bytes, pos, tries) ==
    LET p == peek(bytes, pos)
        q == pop(bytes, pos, 2)
    IN IF p.status # "ok" THEN p
       ELSE IF p.value # Percent THEN Read("ok", tries, pos)
       ELSE IF q.status # "ok" THEN q
       ELSE read_section_type_loop(bytes, q.pos, tries + 1)

\* A count that takes "%F" itself for the first marker.
read_section_type_CountsF(bytes, pos) ==
    LET m == expect_marker(bytes, pos, 70)
        t == read_section_type_loop(bytes, m.pos, 1)
    IN IF m.status # "ok" THEN m
       ELSE IF t.status # "ok" THEN t
       ELSE IF t.value = 1 THEN Read("ok", "Initialization", t.pos)
       ELSE IF t.value = 2 THEN Read("ok", "Main", t.pos)
       ELSE Read("err", 0, t.pos)

\* CodeSection::read_section_type: "%F", and a marker more for every type
\* that comes before the one of the code.
read_section_type(bytes, pos) ==
    LET m == expect_marker(bytes, pos, 70)
        t == read_section_type_loop(bytes, m.pos, 0)
    IN IF m.status # "ok" THEN m
       ELSE IF t.status # "ok" THEN t
       ELSE IF t.value = 0 THEN Read("ok", "Function", t.pos)
       ELSE IF t.value = 1 THEN Read("ok", "Initialization", t.pos)
       ELSE IF t.value = 2 THEN Read("ok", "Main", t.pos)
       ELSE Read("err", 0, t.pos)

RECURSIVE CodeSection_read_loop(_, _, _, _, _)
CodeSection_read_loop(bytes, pos, width, instructions, size) ==
    LET p == peek(bytes, pos)
        Push(i) ==
            IF i.status # "ok" THEN i
            ELSE CodeSection_read_loop(bytes, i.pos, width,
                                       Append(instructions, i.value),
                                       size + Instr_size_of(i.value))
    IN IF p.status # "ok" THEN p
       ELSE IF p.value = Percent
            THEN Read("ok", [instructions |-> instructions, size |-> size], pos)
       ELSE Push(Instr_read(bytes, pos, width))

\* CodeSection::read: size starts at 6; the markers of the types that come
\* after the one of the code are popped.
CodeSection_read(bytes, pos, width) ==
    LET Popped(section_type, l, q) ==
            IF q.status # "ok" THEN q
            ELSE Read("ok", [section_type |-> section_type.value,
                             instructions |-> l.value.instructions,
                             size |-> l.value.size], q.pos)
        Code(section_type, l) ==
            IF l.status # "ok" THEN l
            ELSE Popped(section_type, l,
                        IF section_type.value = "Function" THEN pop(bytes, l.pos, 4)
                        ELSE IF section_type.value = "Initialization"
                             THEN pop(bytes, l.pos, 2)
                        ELSE Read("ok", 0, l.pos))
        Typed(section_type) ==
            IF section_type.status # "ok" THEN section_type
            ELSE Code(section_type,
                      CodeSection_read_loop(bytes, section_type.pos, width, <<>>, 6))
    IN Typed(read_section_type(bytes, pos))

RECURSIVE DebugEntry_read_ranges(_, _, _, _, _)
DebugEntry_read_ranges(bytes, pos, range_bytes, left, ranges) ==
    IF left = 0 THEN Read("ok", ranges, pos)
    ELSE LET range_start == read_bytes_into_u32(bytes, pos, range_bytes)
             range_end == read_bytes_into_u32(bytes, range_start.pos, range_bytes)
         IN IF range_start.status # "ok" THEN range_start
            ELSE IF range_end.status # "ok" THEN range_end
            ELSE DebugEntry_read_ranges(bytes, range_end.pos, range_bytes, left - 1,
                     Append(ranges, <<range_start.value, range_end.value>>))

\* An entry whose line number is read the first byte the highest.
DebugEntry_read_BigEndian(bytes, pos, range_bytes) ==
    LET line_number == next_count(bytes, pos, 2)
        number_ranges == next(bytes, line_number.pos)
        ranges == DebugEntry_read_ranges(bytes, number_ranges.pos, range_bytes,
                                         number_ranges.value, <<>>)
    IN IF line_number.status # "ok" THEN line_number
       ELSE IF number_ranges.status # "ok" THEN number_ranges
       ELSE IF ranges.status # "ok" THEN ranges
       ELSE Read("ok", [line_number |-> from_be_bytes(line_number.value),
                        number_ranges |-> number_ranges.value,
                        ranges |-> ranges.value], ranges.pos)

\* DebugEntry::read
DebugEntry_read(bytes, pos, range_bytes) ==
    LET line_number == next_count(bytes, pos, 2)
        number_ranges == next(bytes, line_number.pos)
        ranges == DebugEntry_read_ranges(bytes, number_ranges.pos, range_bytes,
                                         number_ranges.value, <<>>)
    IN IF line_number.status # "ok" THEN line_number
       ELSE IF number_ranges.status # "ok" THEN number_ranges
       ELSE IF ranges.status # "ok" THEN ranges
       ELSE Read("ok", [line_number |-> from_le_bytes_unsigned(line_number.value),
                        number_ranges |-> number_ranges.value,
                        ranges |-> ranges.value], ranges.pos)

RECURSIVE DebugSection_read_loop(_, _, _, _)
DebugSection_read_loop(bytes, pos, range_size, debug_entries) ==
    IF eof(bytes, pos) THEN Read("ok", debug_entries, pos)
    ELSE LET Push(entry) ==
                 IF entry.status # "ok" THEN entry
                 ELSE DebugSection_read_loop(bytes, entry.pos, range_size,
                                             Append(debug_entries, entry.value))
         IN Push(DebugEntry_read(bytes, pos, range_size))

\* DebugSection::read
DebugSection_read(bytes, pos) ==
    LET Entries(range_size, l) ==
            IF l.status # "ok" THEN l
            ELSE Read("ok", [range_size |-> range_size.value,
                             debug_entries |-> l.value], l.pos)
        Sized(range_size) ==
            IF range_size.status # "ok" THEN range_size
            ELSE Entries(range_size,
                         DebugSection_read_loop(bytes, range_size.pos,
                                                range_size.value, <<>>))
        Marked(m) == IF m.status # "ok" THEN m ELSE Sized(next(bytes, m.pos))
    IN Marked(expect_marker(bytes, pos, 68))

RECURSIVE KSMFile_read_loop(_, _, _, _)
KSMFile_read_loop(bytes, pos, width, code_sections) ==
    LET peeked == peek_count(bytes, pos, 2)
        Push(c) ==
            IF c.status # "ok" THEN c
            ELSE KSMFile_read_loop(bytes, c.pos, width, Append(code_sections, c.value))
    IN IF peeked.status # "ok" THEN peeked
       ELSE IF peeked.value[1] = Percent /\ peeked.value[2] = 68
            THEN Read("ok", code_sections, pos)
       ELSE Push(CodeSection_read(bytes, pos, width))

\* What stands for a section of a document when Err is returned and there is
\* no document.
Absent == [absent |-> TRUE]

NewKSMFile(status, argument_section, code_sections, debug_section, pos) ==
    [status |-> status, argument_section |-> argument_section,
     code_sections |-> code_sections, debug_section |-> debug_section, pos |-> pos]

NotRead(r) == NewKSMFile(r.status, Absent, <<>>, Absent, r.pos)

\* KSMFile::read
KSMFile_read(bytes) ==
    LET Debug(argument_section, code_sections, debug_section) ==
            IF debug_section.status # "ok" THEN NotRead(debug_section)
            ELSE NewKSMFile("ok", argument_section.value, code_sections.value,
                            debug_section.value, debug_section.pos)
        Code(argument_section, code_sections) ==
            IF code_sections.status # "ok" THEN NotRead(code_sections)
            ELSE Debug(argument_section, code_sections,
                       DebugSection_read(bytes, code_sections.pos))
        Arguments(argument_section) ==
            IF argument_section.status # "ok" THEN NotRead(argument_section)
            ELSE Code(argument_section,
                      KSMFile_read_loop(bytes, argument_section.pos,
                                        argument_section.value.addr_bytes, <<>>))
        Marked(m) ==
            IF m.status # "ok" THEN NotRead(m)
            ELSE Arguments(ArgumentSection_read(bytes, m.pos))
        Magic(magic) ==
            IF magic.status # "ok" THEN NotRead(magic)
            ELSE Marked(expect_marker(bytes, magic.pos, 65))
    IN Magic(pop(bytes, 0, 4))

----------------------------------------------------------------------------
(* opcode/mod.rs and lib.rs: the code sections and the debug section read  *)
(* through the peekable iterator, behind the argument section.             *)

size_of_instr(instr, index_bytes) == Len(instr.ops) * index_bytes + 1

RECURSIVE read_code_section_loop(_, _, _, _, _)
read_code_section_loop(bytes, pos, index_bytes, instructions_list, section_size) ==
    IF pos >= Len(bytes) THEN Nothing(pos)
    ELSE IF bytes[pos + 1] = Percent
    THEN Some([instructions |-> instructions_list, size |-> section_size], pos)
    ELSE LET Push(v) ==
                 IF ~v.some THEN v
                 ELSE read_code_section_loop(bytes, v.pos, index_bytes,
                          Append(instructions_list, v.value),
                          section_size + size_of_instr(v.value, index_bytes))
         IN Push(read_instr(bytes, pos, index_bytes))

\* read_code_section: section_size starts at 0.
read_code_section(bytes, pos, index_bytes, section_type) ==
    LET Section(l) ==
            IF ~l.some THEN l
            ELSE Some([section_type |-> section_type,
                       instructions |-> l.value.instructions,
                       size |-> l.value.size], l.pos)
    IN Section(read_code_section_loop(bytes, pos, index_bytes, <<>>, 0))

RECURSIVE read_debug_ranges(_, _, _, _, _)
read_debug_ranges(bytes, pos, range_size, left, ranges_list) ==
    IF left = 0 THEN Some(ranges_list, pos)
    ELSE LET range_start == read_bytes_as_i32(bytes, pos, range_size)
             range_end == read_bytes_as_i32(bytes, range_start.pos, range_size)
         IN IF ~range_start.some THEN range_start
            ELSE IF ~range_end.some THEN range_end
            ELSE read_debug_ranges(bytes, range_end.pos, range_size, left - 1,
                     Append(ranges_list, <<range_start.value, range_end.value>>))

RECURSIVE read_debug_section_loop(_, _, _, _)
\* Entries are read for as long as a byte is left.
read_debug_section_loop(bytes, pos, range_size, entry_list) ==
    IF pos >= Len(bytes) THEN Some(entry_list, pos)
    ELSE LET line_number == read_bytes_as_i32(bytes, pos, 2)
             number_ranges == read_bytes(bytes, line_number.pos, 1)
             ranges == read_debug_ranges(bytes, number_ranges.pos, range_size,
                                         number_ranges.value[1], <<>>)
         IN IF ~line_number.some THEN line_number
            ELSE IF ~number_ranges.some THEN number_ranges
            ELSE IF ~ranges.some THEN ranges
            ELSE read_debug_section_loop(bytes, ranges.pos, range_size,
                     Append(entry_list,
                            [line_number |-> line_number.value,
                             number_ranges |-> number_ranges.value[1],
                             ranges |-> ranges.value]))

read_debug_section(bytes, pos) ==
    LET range_size == read_bytes(bytes, pos, 1)
        Section(l) ==
            IF ~l.some THEN l
            ELSE Some([range_size |-> range_size.value[1], debug_entries |-> l.value],
                      l.pos)
    IN IF ~range_size.some THEN range_size
       ELSE Section(read_debug_section_loop(bytes, range_size.pos,
                                            range_size.value[1], <<>>))

SectionsRead(status, sections, debug_section, pos) ==
    [status |-> status, code_sections |-> sections, debug_section |-> debug_section,
     pos |-> pos]

RECURSIVE read_all_sections_loop(_, _, _, _)
\* "%" and a letter; the section is read when no "%" follows the letter.
read_all_sections_loop(bytes, pos, arg_index_bytes, sections) ==
    IF pos + 3 > Len(bytes) THEN SectionsRead("err", <<>>, Absent, Len(bytes))
    ELSE
    LET next_char == bytes[pos + 2]
        peeked_char == bytes[pos + 3]
        Debug(d) == IF d.some THEN SectionsRead("ok", sections, d.value, d.pos)
                              ELSE SectionsRead("err", <<>>, Absent, d.pos)
        section_type == CASE next_char = 70 -> "Function"
                          [] next_char = 73 -> "Initialization"
                          [] next_char = 77 -> "Main"
                          [] OTHER -> "none"
        Push(c) ==
            IF ~c.some THEN SectionsRead("err", <<>>, Absent, c.pos)
            ELSE read_all_sections_loop(bytes, c.pos, arg_index_bytes,
                                        Append(sections, c.value))
    IN  IF peeked_char = Percent
        THEN read_all_sections_loop(bytes, pos + 2, arg_index_bytes, sections)
        ELSE IF next_char = 68 THEN Debug(read_debug_section(bytes, pos + 2))
        ELSE IF section_type = "none" THEN SectionsRead("err", <<>>, Absent, pos + 2)
        ELSE Push(read_code_section(bytes, pos + 2, arg_index_bytes, section_type))

read_all_sections(bytes, pos, arg_index_bytes) ==
    read_all_sections_loop(bytes, pos, arg_index_bytes, <<>>)

\* The part of lib.rs's run that reads a KSM file: the argument section, then
\* every other section.
read_ksm(bytes) ==
    LET Sections(args) ==
            IF args.status # "ok" THEN SectionsRead(args.status, <<>>, Absent, args.pos)
            ELSE read_all_sections(bytes, args.pos, args.index_bytes)
    IN Sections(read_arguments(bytes))

(* The KSM files of the check, as bytes *)

MaxCodeBytes == 2

MaxParts == 2

MaxDebugEntries == 1

\* nop, and push with the one-byte address 3
InstrEncodings == {<<OpNop>>, <<OpPush, FirstArgIndex>>}

\* The code of a part stands behind the marker of its type.
PartEncoding(section_type, code) ==
    CASE section_type = "Function" ->
            <<Percent, 70>> \o code \o <<Percent, 73, Percent, 77>>
      [] section_type = "Initialization" ->
            <<Percent, 70, Percent, 73>> \o code \o <<Percent, 77>>
      [] section_type = "Main" ->
            <<Percent, 70, Percent, 73, Percent, 77>> \o code

PartEncodings ==
    {PartEncoding(t, Concat(c)) :
        t \in CodeTypes, c \in SeqsUpTo(InstrEncodings, MaxCodeBytes)}

\* line 1 with the range 3..4, line 2 without a range
DebugEncodings == {<<1, 0, 1, 3, 4>>, <<2, 0, 0>>}

\* The header, the width of an address, the constants, the parts, "%D" with
\* ranges of one byte, the entries, and what is left behind them.
KSMBytesWith(widths, tails) ==
    {KSMHeader \o <<w>> \o a \o Concat(ps) \o <<Percent, 68, 1>> \o Concat(ds) \o tail :
        w \in widths, a \in {<<>>, <<0>>},
        ps \in SeqsUpTo(PartEncodings, MaxParts),
        ds \in SeqsUpTo(DebugEncodings, MaxDebugEntries),
        tail \in tails}

KSMBytes == KSMBytesWith({0, 1}, {<<>>, <<9>>})

\* The places of the "%" of a file.  In the files of the check no byte of a
\* constant, of an instruction or of a debug entry is a "%".
MarkerPositions(bytes) == {i \in 1..(Len(bytes) - 1) : bytes[i] = Percent}

\* Every file with addresses of one byte and nothing behind the debug section,
\* with 'X' (88) for the letter of one of its markers.
MismarkedKSMBytes ==
    UNION {{[b EXCEPT ![i + 1] = 88] : i \in MarkerPositions(b)} :
              b \in KSMBytesWith({1}, {<<>>})}

InitParse ==
    /\ pc = "ksm_bytes"
    /\ contents \in KSMBytes \cup MismarkedKSMBytes
    /\ result = Idle /\ reader = Idle
    /\ ksmfile = Idle /\ full_dump = Idle /\ symbol_dump = Idle /\ term_dump = Idle
    /\ kofile = Idle /\ ko_dump = Idle

\* KSMFile::read with a KSMFileReader over the bytes.
ReadKSMFile ==
    /\ pc \in {"ksm_bytes", "file_truncated"}
    /\ result' = KSMFile_read(contents)
    /\ reader' = [current_index |-> result'.pos]
    /\ pc' = IF pc = "ksm_bytes" THEN "file_read" ELSE "file_reread"
    /\ UNCHANGED <<contents, ksmfile, full_dump, symbol_dump, term_dump, ko_vars>>

\* read_arguments and read_all_sections over the bytes.
ReadKSM ==
    /\ pc \in {"ksm_bytes", "lib_truncated"}
    /\ result' = read_ksm(contents)
    /\ reader' = [current_index |-> result'.pos]
    /\ pc' = IF pc = "ksm_bytes" THEN "lib_read" ELSE "lib_reread"
    /\ UNCHANGED <<contents, ksmfile, full_dump, symbol_dump, term_dump, ko_vars>>

\* The file that has been read loses its last byte, and is read again.
LoseLastByte ==
    /\ pc \in {"file_read", "lib_read"}
    /\ result.status = "ok"
    /\ contents' = SubSeq(contents, 1, Len(contents) - 1)
    /\ pc' = IF pc = "file_read" THEN "file_truncated" ELSE "lib_truncated"
    /\ UNCHANGED <<result, reader, ksmfile, full_dump, symbol_dump, term_dump, ko_vars>>

NextParse == ReadKSMFile \/ ReadKSM \/ LoseLastByte

SpecParse == InitParse /\ [][NextParse]_vars

RECURSIVE SumInstrBytes(_, _)
\* The bytes that these instructions take in the file, with addresses of
\* this width: the opcode and the operands of each.
SumInstrBytes(instructions, width) ==
    IF instructions = <<>> THEN 0
    ELSE 1 + width * Len(Head(instructions).ops)
         + SumInstrBytes(Tail(instructions), width)

\* The width of an address, as the argument section of the file gives it.
AddressWidth == contents[HeaderLen + 1]

ParsedByReader == pc \in {"file_read", "file_reread"} /\ result.status = "ok"

ParsedByLib == pc \in {"lib_read", "lib_reread"} /\ result.status = "ok"

\* C9 as it stands: the size recorded for a parsed code section is the sum
\* of the sizes of its instructions plus 2 for a function section, 4 for an
\* initialization section and 6 for a main section.
C9_SizeIsSumPlusOverheadOfType ==
    (ParsedByReader \/ ParsedByLib) =>
        \A n \in 1..Len(result.code_sections) :
            result.code_sections[n].size
                = SumInstrBytes(result.code_sections[n].instructions, AddressWidth)
                  + HeaderOverhead(result.code_sections[n].section_type)

\* C9, amended: the size recorded for a parsed code section is the sum of
\* the sizes of its instructions plus a number that is the same for every
\* type of section: 6 (the three markers of a part) when CodeSection::read
\* records it, 0 when read_code_section records it.
C9_SizeIsSumPlusConstant ==
    /\ ParsedByReader =>
          \A n \in 1..Len(result.code_sections) :
              result.code_sections[n].size
                  = SumInstrBytes(result.code_sections[n].instructions, AddressWidth) + 6
    /\ ParsedByLib =>
          \A n \in 1..Len(result.code_sections) :
              result.code_sections[n].size
                  = SumInstrBytes(result.code_sections[n].instructions, AddressWidth)

\* C9's case: a function section of two instructions, one of them with an
\* operand, has been read by CodeSection::read and recorded with size 9.
C9_Witness ==
    /\ ParsedByReader
    /\ \E n \in 1..Len(result.code_sections) :
          /\ result.code_sections[n].section_type = "Function"
          /\ Len(result.code_sections[n].instructions) = 2
          /\ \E i \in 1..2 : Len(result.code_sections[n].instructions[i].ops) = 1
          /\ result.code_sections[n].size = 9

\* C10: when a file that was read without an error loses its last byte,
\* reading it returns an error; it is not read without an error, and the
\* reader does not panic.
C10_TruncatedFileIsAnError ==
    pc \in {"file_reread", "lib_reread"} => result.status = "err"

----------------------------------------------------------------------------
(* The parse as a whole *)

ParseDone == pc \in {"file_read", "file_reread", "lib_read", "lib_reread"}

\* 'A', 'F', 'I', 'M' and 'D'
MarkerLetters == {65, 70, 73, 77, 68}

\* "%A" stands behind the four magic bytes, and the letter behind every "%"
\* is the letter of a section.
MarkersRecognised(bytes) ==
    /\ Len(bytes) >= HeaderLen
    /\ bytes[HeaderLen - 1] = Percent /\ bytes[HeaderLen] = 65
    /\ \A i \in MarkerPositions(bytes) : bytes[i + 1] \in MarkerLetters

\* The opcodes of the file, as they stand in it.  In the files of the check
\* no other byte has the value of an opcode.
OpcodesInFile(bytes) ==
    LET IsOpcode(b) == b \in {OpNop, OpPush}
    IN SelectSeq(SubSeq(bytes, HeaderLen + 2, Len(bytes)), IsOpcode)

\* The opcodes of the sections of a document, section after section.
OpcodesOf(code_sections) ==
    Concat([n \in 1..Len(code_sections) |->
               [i \in 1..Len(code_sections[n].instructions) |->
                   code_sections[n].instructions[i].opcode]])

\* The number of code sections of the file that have code: the markers of a
\* code section that stand before a byte of code.
SectionsWithCode(bytes) ==
    Cardinality({i \in MarkerPositions(bytes) :
                    /\ bytes[i + 1] \in {70, 73, 77}
                    /\ i + 2 <= Len(bytes)
                    /\ bytes[i + 2] # Percent})

\* The document has the code sections of the file in the order of the file,
\* and the debug section behind them.
InFileOrder ==
    /\ Len(result.code_sections) = SectionsWithCode(contents)
    /\ OpcodesOf(result.code_sections) = OpcodesInFile(contents)
    /\ result.debug_section # Absent

NoDocument == result.code_sections = <<>> /\ result.debug_section = Absent

\* C11: a parse gives the document of the file, with the argument section
\* first, the code sections in the order of the file and the debug section
\* last, or it returns an error and gives no document, not even a part of
\* one; it returns an error when "%A" is not there or the letter of a section
\* marker is not the letter of a section.
C11_WholeDocumentOrError ==
    ParseDone =>
        /\ result.status \in {"ok", "err"}
        /\ result.status = "ok" => MarkersRecognised(contents) /\ InFileOrder
        /\ result.status = "err" => NoDocument

\* KSMFile::read has read the bytes to their debug section, without an error.
ReaderParsed == pc \in {"file_read", "file_reread"} /\ result.status = "ok"

\* C28: the parse of the debug section succeeds only when every byte of the
\* buffer has been consumed: after a successful parse the read position is
\* the length of the buffer, and no byte behind the last whole debug entry is
\* passed over.
C28_SuccessConsumesEveryByte ==
    ReaderParsed => reader.current_index = Len(contents)

----------------------------------------------------------------------------
(* The loops of the parse, one iteration at a time: KSMFile::read with     *)
(* CodeSection::read and DebugSection::read, and read_all_sections.        *)

\* KSMFile::read up to its loop: the magic, "%A" and the argument section.
KSMFile_read_start(bytes) ==
    LET Marked(m) == IF m.status # "ok" THEN m ELSE ArgumentSection_read(bytes, m.pos)
        Magic(magic) == IF magic.status # "ok" THEN magic
                        ELSE Marked(expect_marker(bytes, magic.pos, 65))
    IN Magic(pop(bytes, 0, 4))

\* The parts of at most one piece of code, and two that are alike.
StepParts ==
    SeqsUpTo(PartEncodings, 1) \cup {<<q, q>> : q \in PartEncodings}

StepFiles ==
    {KSMHeader \o <<w>> \o a \o Concat(ps) \o <<Percent, 68, r>> \o Concat(ds) :
        w \in {0, 1}, a \in {<<>>, <<0>>}, ps \in StepParts, r \in {0, 1},
        ds \in SeqsUpTo(DebugEncodings, MaxDebugEntries)}

\* The files, whole and cut short.
StepBytes == UNION {Prefixes(f) : f \in StepFiles}

\* Where the loops stand: the markers counted, the type of the section, where
\* the read position was when the section was begun, the size of a range.
Loops(tries, section_type, iteration_start, range_size) ==
    [tries |-> tries, section_type |-> section_type,
     iteration_start |-> iteration_start, range_size |-> range_size]

InitSteps ==
    /\ pc = "step_bytes"
    /\ contents \in StepBytes
    /\ reader = [current_index |-> 0, arg_address_bytes |-> 0]
    /\ result = Loops(0, "none", 0, 0)
    /\ ksmfile = Idle /\ full_dump = Idle /\ symbol_dump = Idle /\ term_dump = Idle
    /\ kofile = Idle /\ ko_dump = Idle

StepFrame == UNCHANGED <<contents, ksmfile, full_dump, symbol_dump, term_dump, ko_vars>>

\* What a read that did not succeed ends the parse with.
EndedBy(status) == IF status = "panic" THEN "panicked" ELSE "failed"

\* KSMFile::read before its loop
KSMFileReadStart ==
    /\ pc = "step_bytes"
    /\ LET a == KSMFile_read_start(contents)
       IN /\ pc' = IF a.status = "ok" THEN "section_loop" ELSE EndedBy(a.status)
          /\ reader' = [current_index |-> a.pos,
                        arg_address_bytes |-> IF a.status = "ok" THEN a.value.addr_bytes
                                              ELSE 0]
    /\ UNCHANGED result
    /\ StepFrame

\* The head of the loop of KSMFile::read: "%D" ends it, anything else is a
\* code section, which read_section_type opens with "%F".
SectionLoopHead ==
    /\ pc = "section_loop"
    /\ LET peeked == peek_count(contents, reader.current_index, 2)
           m      == expect_marker(contents, reader.current_index, 70)
       IN IF peeked.status # "ok"
          THEN /\ pc' = "failed"
               /\ reader' = [reader EXCEPT !.current_index = peeked.pos]
               /\ UNCHANGED result
          ELSE IF peeked.value[1] = Percent /\ peeked.value[2] = 68
          THEN /\ pc' = "debug_section"
               /\ UNCHANGED <<reader, result>>
          ELSE /\ pc' = IF m.status = "ok" THEN "marker_loop" ELSE "failed"
               /\ reader' = [reader EXCEPT !.current_index = m.pos]
               /\ result' = [result EXCEPT !.tries = 0,
                                           !.iteration_start = reader.current_index]
    /\ StepFrame

\* while peek()? == b'%'
MarkerAhead ==
    /\ peek(contents, reader.current_index).status = "ok"
    /\ peek(contents, reader.current_index).value = Percent

\* One iteration of the loop of read_section_type: pop(2) and a try more.
MarkerLoopIteration ==
    /\ pc = "marker_loop"
    /\ MarkerAhead
    /\ LET q == pop(contents, reader.current_index, 2)
       IN /\ pc' = IF q.status = "ok" THEN "marker_loop" ELSE "failed"
          /\ reader' = [reader EXCEPT !.current_index = q.pos]
          /\ result' = [result EXCEPT !.tries = IF q.status = "ok" THEN @ + 1 ELSE @]
    /\ StepFrame

\* The loop of read_section_type is left: the tries say the type.
MarkerLoopExit ==
    /\ pc = "marker_loop"
    /\ ~MarkerAhead
    /\ pc' = IF peek(contents, reader.current_index).status = "ok" /\ result.tries <= 2
             THEN "instr_loop" ELSE "failed"
    /\ result' = [result EXCEPT !.section_type =
                     CASE result.tries = 0 -> "Function"
                       [] result.tries = 1 -> "Initialization"
                       [] result.tries = 2 -> "Main"
                       [] OTHER -> "none"]
    /\ UNCHANGED reader
    /\ StepFrame

\* while reader.peek()? != b'%'
InstrAhead ==
    /\ peek(contents, reader.current_index).status = "ok"
    /\ peek(contents, reader.current_index).value # Percent

\* One iteration of the loop of CodeSection::read: Instr::read.
InstrLoopIteration ==
    /\ pc = "instr_loop"
    /\ InstrAhead
    /\ LET i == Instr_read(contents, reader.current_index, reader.arg_address_bytes)
       IN /\ pc' = IF i.status = "ok" THEN "instr_loop" ELSE EndedBy(i.status)
          /\ reader' = [reader EXCEPT !.current_index = i.pos]
    /\ UNCHANGED result
    /\ StepFrame

\* The loop of CodeSection::read is left and the markers behind the code are
\* popped: the section is read and KSMFile::read peeks again.
InstrLoopExit ==
    /\ pc = "instr_loop"
    /\ ~InstrAhead
    /\ LET p == peek(contents, reader.current_index)
           q == IF result.section_type = "Function"
                THEN pop(contents, reader.current_index, 4)
                ELSE IF result.section_type = "Initialization"
                     THEN pop(contents, reader.current_index, 2)
                ELSE Read("ok", 0, reader.current_index)
       IN IF p.status # "ok"
          THEN pc' = "failed" /\ UNCHANGED reader
          ELSE /\ pc' = IF q.status = "ok" THEN "section_loop" ELSE "failed"
               /\ reader' = [reader EXCEPT !.current_index = q.pos]
    /\ UNCHANGED result
    /\ StepFrame

\* DebugSection::read before its loop: "%D" and the size of a range.
DebugSectionStart ==
    /\ pc = "debug_section"
    /\ LET m == expect_marker(contents, reader.current_index, 68)
           range_size == next(contents, m.pos)
       IN IF m.status # "ok"
          THEN /\ pc' = "failed"
               /\ reader' = [reader EXCEPT !.current_index = m.pos]
               /\ UNCHANGED result
          ELSE /\ pc' = IF range_size.status = "ok" THEN "entry_loop" ELSE "failed"
               /\ reader' = [reader EXCEPT !.current_index = range_size.pos]
               /\ result' = [result EXCEPT !.range_size = range_size.value]
    /\ StepFrame

\* One iteration of the loop of DebugSection::read: DebugEntry::read.
EntryLoopIteration ==
    /\ pc = "entry_loop"
    /\ ~eof(contents, reader.current_index)
    /\ LET entry == DebugEntry_read(contents, reader.current_index, result.range_size)
       IN /\ pc' = IF entry.status = "ok" THEN "entry_loop" ELSE EndedBy(entry.status)
          /\ reader' = [reader EXCEPT !.current_index = entry.pos]
    /\ UNCHANGED result
    /\ StepFrame

\* The loop of DebugSection::read is left at eof(): the document is there.
EntryLoopExit ==
    /\ pc = "entry_loop"
    /\ eof(contents, reader.current_index)
    /\ pc' = "parsed"
    /\ UNCHANGED <<reader, result>>
    /\ StepFrame

\* lib.rs before read_all_sections: read_arguments.
ReadArgumentsStart ==
    /\ pc = "step_bytes"
    /\ LET args == read_arguments(contents)
       IN /\ pc' = IF args.status = "ok" THEN "all_sections_loop" ELSE EndedBy(args.status)
          /\ reader' = [current_index |-> args.pos, arg_address_bytes |-> args.index_bytes]
    /\ UNCHANGED result
    /\ StepFrame

\* One iteration of the loop of read_all_sections: "%" and a letter are taken;
\* when a "%" follows nothing more is done, otherwise the section is read.
AllSectionsIteration ==
    /\ pc = "all_sections_loop"
    /\ LET pos == reader.current_index
           section_type == CASE contents[pos + 2] = 70 -> "Function"
                             [] contents[pos + 2] = 73 -> "Initialization"
                             [] contents[pos + 2] = 77 -> "Main"
                             [] OTHER -> "none"
           d == read_debug_section(contents, pos + 2)
           c == read_code_section(contents, pos + 2, reader.arg_address_bytes, section_type)
       IN IF pos + 3 > Len(contents)
          THEN /\ pc' = "failed"
               /\ reader' = [reader EXCEPT !.current_index = Len(contents)]
          ELSE IF contents[pos + 3] = Percent
          THEN /\ pc' = "all_sections_loop"
               /\ reader' = [reader EXCEPT !.current_index = pos + 2]
          ELSE IF contents[pos + 2] = 68
          THEN /\ pc' = IF d.some THEN "parsed" ELSE "failed"
               /\ reader' = [reader EXCEPT !.current_index = d.pos]
          ELSE IF section_type = "none"
          THEN /\ pc' = "failed"
               /\ reader' = [reader EXCEPT !.current_index = pos + 2]
          ELSE /\ pc' = IF c.some THEN "all_sections_loop" ELSE "failed"
               /\ reader' = [reader EXCEPT !.current_index = c.pos]
    /\ UNCHANGED result
    /\ StepFrame

NextSteps ==
    \/ KSMFileReadStart \/ SectionLoopHead
    \/ MarkerLoopIteration \/ MarkerLoopExit
    \/ InstrLoopIteration \/ InstrLoopExit
    \/ DebugSectionStart \/ EntryLoopIteration \/ EntryLoopExit
    \/ ReadArgumentsStart \/ AllSectionsIteration

SpecSteps == InitSteps /\ [][NextSteps]_vars

\* An iteration of the loop over the markers, over the instructions or over
\* the debug entries leaves the read position behind where it was.
InnerIterationAdvances ==
    (\/ pc = "marker_loop" /\ MarkerAhead
     \/ pc = "instr_loop" /\ InstrAhead
     \/ pc = "entry_loop" /\ ~eof(contents, reader.current_index)) =>
        reader'.current_index > reader.current_index

\* An iteration of the loop over the sections that comes back to the head of
\* the loop has left the read position behind where the iteration began.
SectionIterationAdvances ==
    /\ (pc = "instr_loop" /\ pc' = "section_loop") =>
           reader'.current_index > result.iteration_start
    /\ (pc = "all_sections_loop" /\ pc' = "all_sections_loop") =>
           reader'.current_index > reader.current_index

\* How far a step of the parse is from the end of its loops: the loops in the
\* order in which the parse passes through them at one read position.
Rank ==
    [step_bytes |-> 6, marker_loop |-> 5, instr_loop |-> 4, section_loop |-> 3,
     all_sections_loop |-> 3, debug_section |-> 2, entry_loop |-> 1,
     parsed |-> 0, failed |-> 0, panicked |-> 0]

\* The furthest a read that fails leaves the read position behind the end.
MaxBehindEnd == 4

\* What is left of the parse: the bytes that are left, each worth more than
\* all the ranks, and the rank of the step.
LeftOfParse(at, index) == 7 * (Len(contents) + MaxBehindEnd - index) + Rank[at]

\* A step of the parse leaves less of the parse than there was, and never
\* less than nothing: no parse goes on for ever.
StepGetsCloser ==
    /\ LeftOfParse(pc', reader'.current_index) < LeftOfParse(pc, reader.current_index)
    /\ LeftOfParse(pc', reader'.current_index) >= 0

\* The parse ends with a document or with an error.
EndsInDocumentOrError == pc' # "panicked"

\* C20: every iteration of the loop over the sections, of the loop that counts
\* the markers, of the loop over the instructions and of the loop over the
\* debug entries leaves the read position further on; every step of the parse
\* of a file, whole or cut short, brings the parse closer to its end; and the
\* end is a document or an error.
C20_ParsingTerminates ==
    [][/\ InnerIterationAdvances /\ SectionIterationAdvances
       /\ StepGetsCloser
       /\ EndsInDocumentOrError]_vars

----------------------------------------------------------------------------
(* fio/mod.rs and lib.rs: what kind of file the raw bytes are *)

GzipMagic == <<31, 139, 8, 0>>      \* 1f 8b 08 00

KSMMagic == <<107, 3, 88, 69>>      \* 6b 03 58 45

KOMagic == <<107, 1, 111, 102>>     \* 6b 01 6f 66

RECURSIVE IndexedEquals(_, _, _)
\* contents[0] == m0 && contents[1] == m1 && ...: "yes", "no" at the first byte
\* that differs, "panic" at the first index that is not in the slice.
IndexedEquals(bytes, magic, i) ==
    IF i > Len(magic) THEN "yes"
    ELSE IF i > Len(bytes) THEN "panic"
    ELSE IF bytes[i] # magic[i] THEN "no"
    ELSE IndexedEquals(bytes, magic, i + 1)

is_gzip(bytes) == IndexedEquals(bytes, GzipMagic, 1)

is_ksm(bytes) == IndexedEquals(bytes, KSMMagic, 1)

is_ko(bytes) == IndexedEquals(bytes, KOMagic, 1)

\* What the decoder has put out, and whether the stream ended as it should.
Inflated(out, ok) == [out |-> out, ok |-> ok]

RECURSIVE inflate(_, _, _)
\* The deflate stream behind the gzip header, block after block.  A stored
\* block (type 0) is its length, the complement of its length, and its bytes;
\* type 3 is an error.  Blocks with Huffman codes are not among the inputs.
inflate(bytes, pos, out) ==
    IF pos + 5 > Len(bytes) \/ (bytes[pos + 1] \div 2) % 4 # 0
    THEN Inflated(out, FALSE)
    ELSE LET len   == bytes[pos + 2] + 256 * bytes[pos + 3]
             nlen  == bytes[pos + 4] + 256 * bytes[pos + 5]
             avail == Min(len, Len(bytes) - (pos + 5))
             Stored(out2) ==
                 IF avail < len THEN Inflated(out2, FALSE)
                 ELSE IF bytes[pos + 1] % 2 = 1 THEN Inflated(out2, TRUE)
                 ELSE inflate(bytes, pos + 5 + len, out2)
         IN IF len + nlen # 65535 THEN Inflated(out, FALSE)
            ELSE Stored(out \o SubSeq(bytes, pos + 6, pos + 5 + avail))

GzipHeaderLen == 10

\* GzDecoder::new(contents) and read_exact of n bytes: the gzip header of 10
\* bytes (no flags), then the first n bytes that the stream gives.
GzDecoder_read_exact(bytes, n) ==
    LET Taken(d) == IF Len(d.out) >= n THEN Read("ok", SubSeq(d.out, 1, n), n)
                    ELSE Read("err", <<>>, Len(d.out))
    IN IF Len(bytes) < GzipHeaderLen \/ SubSeq(bytes, 1, 4) # GzipMagic
       THEN Read("err", <<>>, 0)
       ELSE Taken(inflate(bytes, GzipHeaderLen, <<>>))

\* Ok(file_type), Err or a panic.
FileTyped(status, file_type) == [status |-> status, file_type |-> file_type]

\* The end of both determine_file_type: the magic of the decompressed bytes,
\* or of the raw bytes when they are no gzip file.
FileTypeByMagic(bytes, gzip) ==
    LET Decompressed(d) ==
            IF d.status # "ok" THEN FileTyped("err", "Unknown")
            ELSE IF is_ksm(d.value) = "yes" THEN FileTyped("ok", "KerbalMachineCode")
            ELSE FileTyped("ok", "Unknown")
        Raw(ko) ==
            IF ko = "panic" THEN FileTyped("panic", "Unknown")
            ELSE IF ko = "yes" THEN FileTyped("ok", "KerbalObject")
            ELSE FileTyped("ok", "Unknown")
    IN IF gzip = "panic" THEN FileTyped("panic", "Unknown")
       ELSE IF gzip = "yes" THEN Decompressed(GzDecoder_read_exact(bytes, 4))
       ELSE Raw(is_ko(bytes))

\* determine_file_type of fio/mod.rs
determine_file_type(bytes) ==
    IF Len(bytes) < 4 THEN FileTyped("err", "Unknown")
    ELSE FileTypeByMagic(bytes, is_gzip(bytes))

\* determine_file_type of lib.rs: the length is not looked at.
lib_determine_file_type(bytes) == FileTypeByMagic(bytes, is_gzip(bytes))

(* The files of the check *)

\* A stored block: the final flag, the length, its complement, the bytes.
StoredBlock(final, payload) ==
    <<final, Len(payload), 0, 255 - Len(payload), 255>> \o payload

\* The 10 bytes of a gzip header and the 8 of its trailer, which a read of 4
\* bytes does not get to.
GzipHeader == GzipMagic \o <<0, 0, 0, 0, 0, 3>>

GzipTrailer == <<0, 0, 0, 0, 0, 0, 0, 0>>

\* What is compressed: a KSM file, its magic alone, a KO file, less than 4
\* bytes, nothing.
Payloads ==
    {KSMMagic \o <<37, 65>>, KSMMagic, KOMagic, SubSeq(KSMMagic, 1, 3),
     <<107, 3, 88, 70>>, <<>>}

GzipFiles ==
    {GzipHeader \o StoredBlock(1, q) \o GzipTrailer : q \in Payloads}
    \cup {GzipHeader \o StoredBlock(0, SubSeq(q, 1, 2)) \o StoredBlock(1, SubSeq(q, 3, Len(q)))
             \o GzipTrailer : q \in {q \in Payloads : Len(q) >= 2}}
    \* the complement of the length is wrong, the block type is 3, or the
    \* block is cut short
    \cup {GzipHeader \o <<1, 4, 0, 0, 0>> \o KSMMagic, GzipHeader \o <<7>> \o KSMMagic,
          GzipHeader \o <<1, 6, 0, 249, 255>> \o SubSeq(KSMMagic, 1, 3)}

MaxJunk == 2

RawFiles ==
    UNION {Prefixes(f) : f \in GzipFiles}
    \cup {q \o t : q \in Prefixes(KOMagic) \cup Prefixes(KSMMagic),
                   t \in SeqsUpTo({0, 31}, MaxJunk)}

InitFile ==
    /\ pc = "raw_bytes"
    /\ contents \in RawFiles
    /\ result = Idle /\ reader = Idle
    /\ ksmfile = Idle /\ full_dump = Idle /\ symbol_dump = Idle /\ term_dump = Idle
    /\ kofile = Idle /\ ko_dump = Idle

\* fio::determine_file_type on the bytes of the file
DetermineFileType ==
    /\ pc = "raw_bytes"
    /\ result' = determine_file_type(contents)
    /\ pc' = "file_typed"
    /\ UNCHANGED <<contents, reader, ksmfile, full_dump, symbol_dump, term_dump, ko_vars>>

\* determine_file_type of lib.rs, called by run
LibDetermineFileType ==
    /\ pc = "raw_bytes"
    /\ result' = lib_determine_file_type(contents)
    /\ pc' = "lib_file_typed"
    /\ UNCHANGED <<contents, reader, ksmfile, full_dump, symbol_dump, term_dump, ko_vars>>

NextFile == DetermineFileType \/ LibDetermineFileType

SpecFile == InitFile /\ [][NextFile]_vars

\* The raw bytes start with these 4 bytes.
RawStartsWith(magic) == Len(contents) >= 4 /\ SubSeq(contents, 1, 4) = magic

\* The file is a gzip file with the magic of machine code in its first 4
\* decompressed bytes.
IsMachineCode ==
    /\ RawStartsWith(GzipMagic)
    /\ GzDecoder_read_exact(contents, 4).status = "ok"
    /\ GzDecoder_read_exact(contents, 4).value = KSMMagic

IsObjectFormat == ~RawStartsWith(GzipMagic) /\ RawStartsWith(KOMagic)

FileTypeDone == pc \in {"file_typed", "lib_file_typed"}

\* What detection says of a file that is the one format, the other, or neither.
DetectionFollowsMagic ==
    /\ (result.status = "ok" /\ result.file_type = "KerbalMachineCode") <=> IsMachineCode
    /\ (result.status = "ok" /\ result.file_type = "KerbalObject") <=> IsObjectFormat

\* C19: detection answers machine code exactly for a gzip file (1f 8b 08 00)
\* whose first 4 decompressed bytes are 6b 03 58 45, object format exactly
\* for a file that is no gzip file and starts with 6b 01 6f 66, and for every
\* other file, those of less than 4 bytes too, an error or "unknown"; it
\* never panics.
C19_DetectionByMagic ==
    FileTypeDone => result.status # "panic" /\ DetectionFollowsMagic

----------------------------------------------------------------------------
(* The line-number gutter of a disassembly *)

\* No range holds the address.
NoRange == [found |-> FALSE, line_number |-> 0, range_start |-> 0, range_end |-> 0]

RECURSIVE find_in_ranges(_, _, _)
\* The first range of an entry that holds the address, 0 for none.
find_in_ranges(ranges, k, addr) ==
    IF k > Len(ranges) THEN 0
    ELSE IF addr >= ranges[k][1] /\ addr <= ranges[k][2] THEN k
    ELSE find_in_ranges(ranges, k + 1, addr)

RECURSIVE find_entry_loop(_, _, _)
find_entry_loop(debug_entries, e, addr) ==
    IF e > Len(debug_entries) THEN NoRange
    ELSE LET k == find_in_ranges(debug_entries[e].ranges, 1, addr)
         IN IF k # 0
            THEN [found |-> TRUE, line_number |-> debug_entries[e].line_number,
                  range_start |-> debug_entries[e].ranges[k][1],
                  range_end |-> debug_entries[e].ranges[k][2]]
            ELSE find_entry_loop(debug_entries, e + 1, addr)

\* KSMFileDebug::find_entry_with_addr and DebugSection::find: the first range,
\* in the order of the entries and of their ranges, that holds the address.
find_entry_with_addr(debug_section, addr) ==
    find_entry_loop(debug_section.debug_entries, 1, addr)

\* The glyphs of the states 0..5; every other state leaves the gutter blank.
Art(state) ==
    CASE state = 0 -> "opens"
      [] state = 1 -> "continues"
      [] state = 2 -> "numbered"
      [] state = 3 -> "closed"
      [] state = 4 -> "closes"
      [] state = 5 -> "opens_next_closes"
      [] OTHER     -> "blank"

\* One gutter of a disassembly: where the instruction is, the state chosen for
\* it (6 when no range is found) and the line-number field as printed.
GutterLine(n, i, addr, size, found, state, num_str) ==
    [section |-> n, at |-> i, addr |-> addr, size |-> size, found |-> found,
     state |-> state, num_str |-> num_str, art |-> Art(state)]

\* The state KSMFileDebug::dump_code_section chooses for a found range.  The
\* next instruction is looked up with nth(index + 1), index being the running
\* label index.
gutter_state(file, instrs, index, addr, instr, hit) ==
    LET range_start    == hit.range_start
        range_end      == hit.range_end
        range_middle   == ((range_end - range_start) \div 2) + range_start
        operand_length == instr_size(file, instr) - 1
    IN IF addr = range_start /\ range_start + operand_length = range_end THEN 3
       ELSE IF addr = range_start
            THEN IF index + 2 <= Len(instrs)
                 THEN IF addr + operand_length + instr_size(file, instrs[index + 2])
                            = range_end
                      THEN 5 ELSE 0
                 ELSE 0
       ELSE IF addr + operand_length = range_end THEN 4
       ELSE IF range_middle >= addr /\ range_middle <= addr + operand_length THEN 2
       ELSE IF addr + operand_length < range_end /\ addr > range_start THEN 1
       ELSE 6

RECURSIVE dump_code_section_gutter(_, _, _, _, _, _, _)
\* The gutters of KSMFileDebug::dump_code_section with config.line_numbers.
dump_code_section_gutter(file, n, instrs, i, index, addr, gutter) ==
    IF i > Len(instrs) THEN [gutter |-> gutter, index |-> index, addr |-> addr]
    ELSE LET instr == instrs[i]
             hit   == find_entry_with_addr(file.debug_section, addr)
             state == IF hit.found
                      THEN gutter_state(file, instrs, index, addr, instr, hit)
                      ELSE 6
             num_str == IF hit.found /\ state \in {2, 3, 5}
                        THEN ToDigits(hit.line_number) ELSE <<>>
         IN dump_code_section_gutter(
                file, n, instrs, i + 1,
                IF instr.opcode = OpLbrt THEN index ELSE index + 1,
                addr + instr_size(file, instr),
                Append(gutter, GutterLine(n, i, addr, instr_size(file, instr),
                                          hit.found, state, num_str)))

RECURSIVE dump_code_sections_gutter(_, _, _, _, _)
\* KSMFileDebug::dump_code_sections with config.line_numbers.
dump_code_sections_gutter(file, n, index, addr, gutter) ==
    IF n > Len(file.code_sections) THEN [gutter |-> gutter, panic |-> FALSE]
    ELSE LET instrs == file.code_sections[n].instructions
             r == dump_code_section_gutter(file, n, instrs, 1, index, addr + 2, gutter)
         IN IF Len(instrs) # 0
            THEN dump_code_sections_gutter(file, n + 1, r.index, r.addr, r.gutter)
            ELSE dump_code_sections_gutter(file, n + 1, index, addr + 2, gutter)

\* The state CodeSection::dump chooses for a found range; the next instruction
\* is get(index + 1).unwrap(), which panics behind the last instruction.
CodeSection_gutter_state(file, instrs, i, addr, instr, hit) ==
    LET range_start     == hit.range_start
        range_end       == hit.range_end
        middle_range    == ((range_end - range_start) \div 2) + range_start
        operands_length == Instr_size(file, instr) - 1
    IN IF addr = range_start /\ range_start + operands_length = range_end THEN 3
       ELSE IF addr = range_start
            THEN IF i + 1 > Len(instrs) THEN -1
                 ELSE IF addr + operands_length + Instr_size(file, instrs[i + 1])
                            = range_end
                      THEN 5 ELSE 0
       ELSE IF addr + operands_length = range_end THEN 4
       ELSE IF middle_range >= addr /\ middle_range <= addr + operands_length THEN 2
       ELSE IF addr + operands_length < range_end /\ addr > range_start THEN 1
       ELSE 6

RECURSIVE CodeSection_dump_gutter(_, _, _, _, _, _)
\* The gutters of CodeSection::dump with show_line_numbers.
CodeSection_dump_gutter(file, n, instrs, i, addr, gutter) ==
    IF i > Len(instrs) THEN [gutter |-> gutter, panic |-> FALSE]
    ELSE LET instr == instrs[i]
             hit   == find_entry_with_addr(file.debug_section, addr)
             state == IF hit.found
                      THEN CodeSection_gutter_state(file, instrs, i, addr, instr, hit)
                      ELSE 6
             num_str == IF hit.found /\ state \in {2, 3, 5}
                        THEN ToDigits(hit.line_number) ELSE <<>>
         IN IF state = -1 THEN [gutter |-> gutter, panic |-> TRUE]
            ELSE CodeSection_dump_gutter(
                     file, n, instrs, i + 1, addr + Instr_size(file, instr),
                     Append(gutter, GutterLine(n, i, addr, Instr_size(file, instr),
                                               hit.found, state, num_str)))

RECURSIVE KSMFile_dump_gutter(_, _, _, _)
\* KSMFile::dump with config.disassemble and config.line_numbers.
KSMFile_dump_gutter(file, n, offset, gutter) ==
    IF n > Len(file.code_sections) THEN [gutter |-> gutter, panic |-> FALSE]
    ELSE LET section == file.code_sections[n]
             r == CodeSection_dump_gutter(
                      file, n, section.instructions, 1,
                      offset + HeaderOverhead(section.section_type), gutter)
         IN IF r.panic THEN r
            ELSE KSMFile_dump_gutter(file, n + 1,
                                     offset + CodeSection_size(file, section), r.gutter)

RECURSIVE print_line_number_loop(_, _, _, _, _)
\* The loop of print_line_number over the ranges of the current entry: the
\* state the last range gives is the one that is printed.
print_line_number_loop(ranges, k, address, ops_len, state) ==
    IF k > Len(ranges) THEN state
    ELSE LET range_start  == ranges[k][1]
             range_end    == ranges[k][2]
             middle_range == ((range_end - range_start) \div 2) + range_start
         IN print_line_number_loop(
                ranges, k + 1, address, ops_len,
                IF address = range_end /\ range_start = range_end THEN 3
                ELSE IF address = range_start THEN 0
                ELSE IF middle_range >= address /\ middle_range <= address + ops_len
                     THEN 2
                ELSE IF address + ops_len < range_end /\ address > range_start THEN 1
                ELSE IF address + ops_len = range_end THEN 4
                ELSE 0)

\* print_line_number of lib.rs: the state, the line number when the state is 2,
\* and whether the next entry is to be taken.
print_line_number(debug_entry, address, ops_len) ==
    LET state == print_line_number_loop(debug_entry.ranges, 1, address, ops_len, 0)
    IN [state   |-> state,
        num_str |-> IF state = 2 THEN ToDigits(debug_entry.line_number) ELSE <<>>,
        done    |-> state \in {3, 4}]

\* The entry lib.rs starts with when the debug section has none.
null_debug_entry == [line_number |-> -1, number_ranges |-> -1, ranges |-> <<>>]

RECURSIVE dump_ksm_gutter_loop(_, _, _, _, _, _, _)
\* The gutters of one section in the dump of lib.rs.
dump_ksm_gutter_loop(file, n, instrs, i, current_instr_address, entry_index, gutter) ==
    IF i > Len(instrs)
    THEN [gutter |-> gutter, addr |-> current_instr_address, entry_index |-> entry_index]
    ELSE LET entries == file.debug_section.debug_entries
             current_debug_entry == IF entries = <<>> THEN null_debug_entry
                                    ELSE entries[entry_index + 1]
             size == size_of_instr(instrs[i], file.arg_section.num_index_bytes)
             p == print_line_number(current_debug_entry, current_instr_address, size - 1)
         IN dump_ksm_gutter_loop(
                file, n, instrs, i + 1, current_instr_address + size,
                IF p.done /\ entry_index + 2 <= Len(entries)
                THEN entry_index + 1 ELSE entry_index,
                Append(gutter, GutterLine(n, i, current_instr_address, size, TRUE,
                                          p.state, p.num_str)))

RECURSIVE dump_ksm_gutter(_, _, _, _, _)
\* The loop over the sections of the dump of lib.rs with line numbers.
dump_ksm_gutter(file, n, current_instr_address, entry_index, gutter) ==
    IF n > Len(file.code_sections) THEN [gutter |-> gutter, panic |-> FALSE]
    ELSE LET section == file.code_sections[n]
             r == dump_ksm_gutter_loop(
                      file, n, section.instructions, 1,
                      current_instr_address + HeaderOverhead(section.section_type),
                      entry_index, gutter)
         IN dump_ksm_gutter(file, n + 1, r.addr, r.entry_index, r.gutter)

\* The instructions of the documents with a debug section: one, two and two
\* bytes long with one-byte operands; the label reset does not count as an
\* instruction of the running index.
GutterInstrs ==
    {Instr(OpNop, <<>>), Instr(OpPush, <<FirstArgIndex>>),
     Instr(OpLbrt, <<FirstArgIndex + size_bytes(KString(T_foo))>>)}

MaxGutterInstrs == 3
MaxSpan == 5
MaxGutterEntries == 2

\* The ranges that lie within MaxSpan bytes behind an address.
RangesFrom(base) ==
    {<<base + p[1], base + p[2]>> :
        p \in {q \in (0..MaxSpan) \X (0..MaxSpan) : q[1] <= q[2]}}

\* The debug sections whose ranges start at or behind an address: the k-th
\* entry has the line number 10 * k and one range.
DebugSections(base) ==
    {[range_size    |-> 1,
      debug_entries |-> [k \in 1..Len(rs) |->
                            [line_number |-> 10 * k, number_ranges |-> 1,
                             ranges |-> <<rs[k]>>]]] :
        rs \in SeqsUpTo(RangesFrom(base), MaxGutterEntries)}

\* A function of one nop ahead of the section that the ranges are about.
LeadSection == [section_type |-> "Function", instructions |-> <<Instr(OpNop, <<>>)>>]

\* The addresses at which the first instruction of the last section is found
\* by one of the three dumps: 2 in a document of one section; behind
\* LeadSection 5 (two header bytes a section) or 9 (the recorded size of 7).
FirstAddrs(lead) == IF lead = <<>> THEN {2} ELSE {5, 9}

\* The constants the instructions of these documents name.
GutterPool == <<KString(T_foo), KString(T_foo1)>>

GutterFile(lead, is, d) ==
    [arg_section   |-> ArgumentSection(1, GutterPool),
     code_sections |-> lead \o <<[section_type |-> "Function", instructions |-> is]>>,
     debug_section |-> d]

NoGutter == [by |-> "none", gutter |-> <<>>, panic |-> FALSE]

InitGutter ==
    /\ pc = "gutter_parsed"
    /\ \E lead \in {<<>>, <<LeadSection>>} :
       \E is \in SeqsUpTo(GutterInstrs, MaxGutterInstrs) \ {<<>>} :
       \E base \in FirstAddrs(lead) :
       \E d \in DebugSections(base) :
           ksmfile = GutterFile(lead, is, d)
    /\ result = NoGutter
    /\ full_dump = Idle /\ symbol_dump = Idle /\ term_dump = Idle
    /\ kofile = Idle /\ ko_dump = Idle /\ contents = Idle /\ reader = Idle

\* One of the three dumps prints the gutters of the document.
Gutters(by, r) ==
    /\ pc = "gutter_parsed"
    /\ result' = [by |-> by, gutter |-> r.gutter, panic |-> r.panic]
    /\ pc' = IF r.panic THEN "gutter_panicked" ELSE "gutter_dumped"
    /\ UNCHANGED <<ksmfile, full_dump, symbol_dump, term_dump, ko_vars, contents, reader>>

\* kdump --disassemble --line-numbers, the dump of output/ksm.rs
DumpCodeSectionsGutter ==
    Gutters("dump_code_sections", dump_code_sections_gutter(ksmfile, 1, 1, 0, <<>>))

\* the same of ksm_reader
KSMFileDumpGutter ==
    Gutters("KSMFile_dump", KSMFile_dump_gutter(ksmfile, 1, 0, <<>>))

\* the same of lib.rs
DumpKsmGutter ==
    Gutters("dump_ksm", dump_ksm_gutter(ksmfile, 1, 0, 0, <<>>))

NextGutter == DumpCodeSectionsGutter \/ KSMFileDumpGutter \/ DumpKsmGutter

SpecGutter == InitGutter /\ [][NextGutter]_vars

----------------------------------------------------------------------------
(* Claims about the gutter *)

\* The instruction a gutter line stands for and the one that follows it in
\* the same section (none behind the last).
InstrsOf(g) == ksmfile.code_sections[g.section].instructions

HasFollower(g) == g.at < Len(InstrsOf(g))

\* The last byte of the instruction and of the instruction that follows it.
EndOf(g) == g.addr + g.size - 1

FollowerEnd(g) ==
    EndOf(g) + 1 + ksmfile.arg_section.num_index_bytes * Len(InstrsOf(g)[g.at + 1].ops)

\* The range that holds the start address of the instruction.
RangeOf(g) == find_entry_with_addr(ksmfile.debug_section, g.addr)

Midpoint(r) == r.range_start + ((r.range_end - r.range_start) \div 2)

\* The first condition that holds, in the order (a/b), (c), (d), (e), (f), (g).
StateInOrder(g) ==
    LET r == RangeOf(g)
    IN CASE g.addr = r.range_start /\ EndOf(g) = r.range_end              -> "closed"
         [] g.addr = r.range_start /\ EndOf(g) # r.range_end
            /\ HasFollower(g) /\ FollowerEnd(g) = r.range_end             -> "opens_next_closes"
         [] g.addr = r.range_start /\ EndOf(g) # r.range_end
            /\ ~(HasFollower(g) /\ FollowerEnd(g) = r.range_end)          -> "opens"
         [] g.addr # r.range_start /\ EndOf(g) = r.range_end              -> "closes"
         [] g.addr # r.range_start /\ EndOf(g) # r.range_end
            /\ Midpoint(r) >= g.addr /\ Midpoint(r) <= EndOf(g)           -> "numbered"
         [] g.addr # r.range_start /\ EndOf(g) # r.range_end
            /\ ~(Midpoint(r) >= g.addr /\ Midpoint(r) <= EndOf(g))
            /\ g.addr > r.range_start /\ EndOf(g) < r.range_end           -> "continues"
         [] OTHER                                                         -> "blank"

\* The dumps that look the range of an address up.
ByLookup == result.by \in {"dump_code_sections", "KSMFile_dump"}

\* The gutter lines of instructions whose start address lies in a range.
InRange == {k \in 1..Len(result.gutter) : RangeOf(result.gutter[k]).found}

\* The number of instructions of the document.
AllInstrs ==
    LET RECURSIVE Count(_)
        Count(n) == IF n > Len(ksmfile.code_sections) THEN 0
                    ELSE Len(ksmfile.code_sections[n].instructions) + Count(n + 1)
    IN Count(1)

\* C21: for every instruction whose start address lies in a found debug range
\* the gutter state is the first condition that holds in the order (a/b) starts
\* the range and the range ends at the instruction's end, (c) starts it and the
\* next instruction's end is the range end, (d) starts it otherwise, (e) its
\* end is the range end, (f) the midpoint lies within its span, (g) it is
\* strictly interior, otherwise blank; every instruction gets its gutter.
C21_GutterStateInPriorityOrder ==
    (pc # "gutter_parsed" /\ ByLookup) =>
        /\ Len(result.gutter) = AllInstrs
        /\ \A k \in InRange : result.gutter[k].art = StateInOrder(result.gutter[k])

\* The states in which the line-number field is to stay empty: (c), (d), (e),
\* (g) and the blank gutter (h).
UnnumberedStates == {"opens_next_closes", "opens", "closes", "continues", "blank"}

\* C22: the line number is printed only in the states (a/b), the range spans
\* this instruction, and (f), the midpoint falls within it; in every other
\* state the line-number field of the gutter is empty.
C22_NumberOnlyInClosedAndMidpoint ==
    pc # "gutter_parsed" =>
        \A k \in 1..Len(result.gutter) :
            result.gutter[k].art \in UnnumberedStates => result.gutter[k].num_str = <<>>

\* The gutter lines of the instructions that start their range without ending it.
OpenRange ==
    {k \in InRange : /\ result.gutter[k].addr = RangeOf(result.gutter[k]).range_start
                     /\ EndOf(result.gutter[k]) # RangeOf(result.gutter[k]).range_end}

\* The instruction behind this one, in the same section, ends where the range does.
FollowerCloses(g) == HasFollower(g) /\ FollowerEnd(g) = RangeOf(g).range_end

\* C23: an instruction that starts a range without ending it gets the state
\* (c) exactly when the instruction at the next position of its section ends
\* at the range end, and (d) otherwise, also when it is the last instruction
\* of the section: the classification does not fail.
C23_NextInstructionDecidesOpenState ==
    (pc # "gutter_parsed" /\ ByLookup) =>
        /\ ~result.panic
        /\ \A k \in OpenRange :
              result.gutter[k].art = IF FollowerCloses(result.gutter[k])
                                     THEN "opens_next_closes" ELSE "opens"

----------------------------------------------------------------------------
(* The type of a code section, read from the markers behind "%F" *)

MaxFreeBytes == 6
MaxMarkers == 4

\* The bytes a section may begin with: every sequence of up to MaxFreeBytes
\* bytes over "%", "F", "I" and the opcode of nop, and "%F" followed by up to
\* MaxMarkers markers and then by nothing, by an opcode or by a lone "%".
SectionStarts ==
    SeqsUpTo({Percent, 70, 73, OpNop}, MaxFreeBytes)
    \cup {<<Percent, 70>> \o Concat(ms) \o tail :
            ms \in SeqsUpTo({<<Percent, 73>>, <<Percent, 77>>, <<Percent, 70>>}, MaxMarkers),
            tail \in {<<>>, <<OpNop>>, <<Percent>>}}

InitSectionType ==
    /\ pc = "section_bytes"
    /\ contents \in SectionStarts
    /\ reader = [current_index |-> 0]
    /\ result = Idle
    /\ ksmfile = Idle /\ full_dump = Idle /\ symbol_dump = Idle /\ term_dump = Idle
    /\ kofile = Idle /\ ko_dump = Idle

\* CodeSection::read_section_type on a reader at the start of the bytes.
ReadSectionType ==
    /\ pc = "section_bytes"
    /\ result' = read_section_type(contents, reader.current_index)
    /\ reader' = [current_index |-> result'.pos]
    /\ pc' = "section_typed"
    /\ UNCHANGED <<ksmfile, full_dump, symbol_dump, term_dump, ko_vars, contents>>

NextSectionType == ReadSectionType

SpecSectionType == InitSectionType /\ [][NextSectionType]_vars

\* The bytes begin with "%F".
BeginsWithF == Len(contents) >= 2 /\ contents[1] = Percent /\ contents[2] = 70

\* The j-th two-byte marker behind "%F" (j from 0) begins with "%".
MarkerAt(j) == 3 + 2 * j <= Len(contents) /\ contents[3 + 2 * j] = Percent

\* The number of consecutive markers behind "%F".
MarkerCount ==
    CHOOSE k \in 0..Len(contents) : ~MarkerAt(k) /\ \A j \in 0..(k - 1) : MarkerAt(j)

\* The markers are whole and a byte that is no marker follows them.
RunIsFollowed == 2 + 2 * MarkerCount < Len(contents)

TypeOfCount(k) ==
    CASE k = 0 -> "Function" [] k = 1 -> "Initialization" [] k = 2 -> "Main"
      [] OTHER -> "none"

\* C24: the type of a code section follows from the number of consecutive
\* two-byte markers behind "%F": none is FUNCTION, one INITIALIZATION, two
\* MAIN, three or more an error; a section that does not begin with "%F" is an
\* error, and so is one whose bytes end within the markers.
C24_MarkerCountGivesType ==
    pc = "section_typed" =>
        IF BeginsWithF /\ RunIsFollowed /\ MarkerCount <= 2
        THEN /\ result.status = "ok"
             /\ result.value = TypeOfCount(MarkerCount)
             /\ reader.current_index = 2 + 2 * MarkerCount
        ELSE result.status = "err"

\* A MAIN section has been recognised by its two markers.
C24_Witness ==
    /\ pc = "section_typed" /\ BeginsWithF /\ MarkerCount = 2 /\ RunIsFollowed
    /\ result.status = "ok" /\ result.value = "Main"

----------------------------------------------------------------------------
(* One debug entry, read behind the byte that gives the width of a range *)

LineBytes == {0, 1, 2, 128, 255}
RangeBytes == {1, 200}
MaxRanges == 2
RangeWidths == {1, 2}

\* The width byte and one entry: two bytes of line number, the count of the
\* ranges and that many pairs of addresses; whole, or cut short.
EntriesOf(w, n) ==
    UNION {Prefixes(<<w, b0, b1, n>> \o rs) \ {<<>>} :
            b0 \in LineBytes, b1 \in LineBytes, rs \in [1..(2 * n * w) -> RangeBytes]}

EntryBytes == UNION {EntriesOf(w, n) : w \in RangeWidths, n \in 0..MaxRanges}

InitEntry ==
    /\ pc = "entry_bytes"
    /\ contents \in EntryBytes
    /\ reader = [current_index |-> 1, debug_range_bytes |-> contents[1]]
    /\ result = Idle
    /\ ksmfile = Idle /\ full_dump = Idle /\ symbol_dump = Idle /\ term_dump = Idle
    /\ kofile = Idle /\ ko_dump = Idle

\* DebugEntry::read, the reader standing behind the width byte.
DebugEntryRead ==
    /\ pc = "entry_bytes"
    /\ LET r == DebugEntry_read(contents, reader.current_index, reader.debug_range_bytes)
       IN /\ result' = [by |-> "DebugEntry_read", status |-> r.status,
                        entries |-> IF r.status = "ok" THEN <<r.value>> ELSE <<>>]
          /\ reader' = [reader EXCEPT !.current_index = r.pos]
    /\ pc' = "entry_read"
    /\ UNCHANGED <<ksmfile, full_dump, symbol_dump, term_dump, ko_vars, contents>>

\* read_debug_section of opcode/mod.rs on the same bytes.
ReadDebugSection ==
    /\ pc = "entry_bytes"
    /\ LET r == read_debug_section(contents, 0)
       IN /\ result' = [by |-> "read_debug_section",
                        status |-> IF r.some THEN "ok" ELSE "err",
                        entries |-> IF r.some THEN r.value.debug_entries ELSE <<>>]
          /\ reader' = [reader EXCEPT !.current_index = r.pos]
    /\ pc' = "entry_read"
    /\ UNCHANGED <<ksmfile, full_dump, symbol_dump, term_dump, ko_vars, contents>>

NextEntry == DebugEntryRead \/ ReadDebugSection

SpecEntry == InitEntry /\ [][NextEntry]_vars

\* The entry is whole: its bytes are all there.
EntryIsWhole ==
    /\ Len(contents) >= 4
    /\ Len(contents) = 4 + 2 * contents[4] * contents[1]

\* An entry has been read from whole bytes.
EntryRead == pc = "entry_read" /\ EntryIsWhole

\* The count byte is the number of ranges, the pairs are that many and the
\* read ends behind the last of them.
CountAndPairs ==
    /\ result.status = "ok" /\ Len(result.entries) = 1
    /\ result.entries[1].number_ranges = contents[4]
    /\ Len(result.entries[1].ranges) = contents[4]
    /\ reader.current_index = Len(contents)

\* C25 as claimed: the line number of a debug entry is the big-endian unsigned
\* value of its first two bytes, b0 * 256 + b1, and a one-byte range count and
\* that many (start, end) pairs follow.
C25_LineNumberBigEndian ==
    EntryRead =>
        /\ CountAndPairs
        /\ result.entries[1].line_number = contents[2] * 256 + contents[3]

\* The first two bytes of the entry, the first one the lowest.
LittleEndian == contents[2] + 256 * contents[3]

\* C25 as amended: the line number of a debug entry is the little-endian value
\* of its first two bytes, b0 + b1 * 256, which DebugEntry::read takes as
\* unsigned and read_debug_section as a signed 16-bit number; a one-byte
\* range count and that many (start, end) pairs follow.
C25_LineNumberLittleEndian ==
    EntryRead =>
        /\ CountAndPairs
        /\ result.entries[1].line_number =
              IF result.by = "read_debug_section" /\ contents[3] >= 128
              THEN LittleEndian - 65536 ELSE LittleEndian

\* An entry whose two line-number bytes differ has been read with its ranges.
C25_Witness ==
    /\ EntryRead /\ result.by = "DebugEntry_read" /\ result.status = "ok"
    /\ contents[2] = 2 /\ contents[3] = 1 /\ contents[4] = 2
    /\ result.entries[1].line_number = 258

----------------------------------------------------------------------------
(* The opcode tables: the arity and the mnemonic of every opcode byte *)

\* The arms of get_instr_mnemonic of opcode/mod.rs.
InstrMnemonics ==
    49 :> "eof" @@ 50 :> "eop" @@ 51 :> "nop" @@ 52 :> "sto" @@ 53 :> "uns" @@
    54 :> "gmb" @@ 55 :> "smb" @@ 56 :> "gidx" @@ 57 :> "sidx" @@ 58 :> "bfa" @@
    59 :> "jmp" @@ 60 :> "add" @@ 61 :> "sub" @@ 62 :> "mul" @@ 63 :> "div" @@
    64 :> "pow" @@ 65 :> "cgt" @@ 66 :> "clt" @@ 67 :> "cge" @@ 68 :> "cle" @@
    69 :> "ceq" @@ 70 :> "cne" @@ 71 :> "neg" @@ 72 :> "bool" @@ 73 :> "not" @@
    74 :> "and" @@ 75 :> "or" @@ 76 :> "call" @@ 77 :> "ret" @@ 78 :> "push" @@
    79 :> "pop" @@ 80 :> "dup" @@ 81 :> "swap" @@ 82 :> "eval" @@ 83 :> "addt" @@
    84 :> "rmvt" @@ 85 :> "wait" @@ 86 :> "endw" @@ 87 :> "gmet" @@ 88 :> "stol" @@
    89 :> "stog" @@ 90 :> "bscp" @@ 91 :> "escp" @@ 92 :> "stoe" @@ 93 :> "phdl" @@
    94 :> "btr" @@ 95 :> "exst" @@ 96 :> "argb" @@ 97 :> "targ" @@ 98 :> "tcan" @@
    206 :> "prl" @@ 205 :> "pdrl" @@ 240 :> "lbrt"

\* The arms of Instr::get_mnemonic.
MnemonicArms ==
    49 :> "eof" @@ 50 :> "eop" @@ 51 :> "nop" @@ 52 :> "sto" @@ 53 :> "uns" @@
    54 :> "gmb" @@ 55 :> "smb" @@ 56 :> "gidx" @@ 57 :> "sidx" @@ 58 :> "bfa" @@
    59 :> "jmp" @@ 60 :> "add" @@ 61 :> "sub" @@ 62 :> "mul" @@ 63 :> "div" @@
    64 :> "pow" @@ 65 :> "cgt" @@ 66 :> "clt" @@ 67 :> "cge" @@ 68 :> "cle" @@
    69 :> "ceq" @@ 70 :> "cne" @@ 71 :> "neg" @@ 72 :> "bool" @@ 73 :> "not" @@
    74 :> "and" @@ 75 :> "or" @@ 76 :> "call" @@ 77 :> "ret" @@ 78 :> "push" @@
    79 :> "pop" @@ 80 :> "dup" @@ 81 :> "swap" @@ 82 :> "eval" @@ 83 :> "addt" @@
    84 :> "rmvt" @@ 85 :> "wait" @@ 86 :> "endw" @@ 87 :> "gmet" @@ 88 :> "stol" @@
    89 :> "stog" @@ 90 :> "bscp" @@ 91 :> "escp" @@ 92 :> "stoe" @@ 93 :> "phdl" @@
    94 :> "btr" @@ 95 :> "exst" @@ 96 :> "argb" @@ 97 :> "targ" @@ 98 :> "tcan" @@
    206 :> "prl" @@ 205 :> "pdrl" @@ 240 :> "lbrt"

\* get_instr_mnemonic of opcode/mod.rs: "bogus" for an opcode with no arm.
get_instr_mnemonic(opcode) ==
    IF opcode \in DOMAIN InstrMnemonics THEN InstrMnemonics[opcode] ELSE "bogus"

\* Instr::get_mnemonic
Instr_get_mnemonic(opcode) ==
    IF opcode \in DOMAIN MnemonicArms THEN MnemonicArms[opcode] ELSE "bogus"

Bytes == 0..255

InitOpcode ==
    /\ pc = "opcode_byte"
    /\ contents \in {<<b>> : b \in Bytes}
    /\ result = Idle
    /\ reader = Idle
    /\ ksmfile = Idle /\ full_dump = Idle /\ symbol_dump = Idle /\ term_dump = Idle
    /\ kofile = Idle /\ ko_dump = Idle

\* The two tables of one implementation are asked about the opcode.
LookedUp(by, arity, mnemonic) ==
    /\ pc = "opcode_byte"
    /\ result' = [by |-> by, arity |-> arity, mnemonic |-> mnemonic]
    /\ pc' = "opcode_looked_up"
    /\ UNCHANGED <<ksmfile, full_dump, symbol_dump, term_dump, ko_vars, contents, reader>>

\* opcode/mod.rs: get_num_operands and get_instr_mnemonic
GetNumOperands ==
    LookedUp("opcode", get_num_operands(contents[1]), get_instr_mnemonic(contents[1]))

\* instruction/mod.rs: Instr::opcode_num_operands and Instr::get_mnemonic
OpcodeNumOperands ==
    LookedUp("instruction", opcode_num_operands(contents[1]),
             Instr_get_mnemonic(contents[1]))

NextOpcode == GetNumOperands \/ OpcodeNumOperands

SpecOpcode == InitOpcode /\ [][NextOpcode]_vars

\* C26: for every opcode byte the arity table gives an arity of 0, 1 or 2
\* exactly when the mnemonic table gives a mnemonic other than "bogus".
C26_ArityIffMnemonic ==
    pc = "opcode_looked_up" =>
        (result.arity \in {0, 1, 2} <=> result.mnemonic # "bogus")

\* The label reset, the last arm of both tables, has been looked up.
C26_Witness ==
    /\ pc = "opcode_looked_up" /\ contents = <<OpLbrt>>
    /\ result.arity = 1 /\ result.mnemonic = "lbrt"

----------------------------------------------------------------------------
(* An address of one to four bytes *)

\* The bytes of an address; the highest keeps four of them within 31 bits.
AddrBytes == {0, 1, 2, 127}

MaxAddrBytes == 4

Widths == 1..4

InitAddr ==
    /\ pc = "addr_bytes"
    /\ contents \in SeqsUpTo(AddrBytes, MaxAddrBytes)
    /\ reader \in {[current_index |-> 0, arg_address_bytes |-> w] : w \in Widths}
    /\ result = Idle
    /\ ksmfile = Idle /\ full_dump = Idle /\ symbol_dump = Idle /\ term_dump = Idle
    /\ kofile = Idle /\ ko_dump = Idle

\* KSMFileReader::read_argument_address
ReadArgumentAddress ==
    /\ pc = "addr_bytes"
    /\ result' = read_bytes_into_u32(contents, reader.current_index,
                                     reader.arg_address_bytes)
    /\ reader' = [reader EXCEPT !.current_index = result'.pos]
    /\ pc' = "addr_read"
    /\ UNCHANGED <<contents, ksmfile, full_dump, symbol_dump, term_dump, ko_vars>>

\* KSMFileReader::read_uint16_be, the read of two bytes on its own
ReadUint16Be ==
    /\ pc = "addr_bytes" /\ reader.arg_address_bytes = 2
    /\ result' = read_uint16_be(contents, reader.current_index)
    /\ reader' = [reader EXCEPT !.current_index = result'.pos]
    /\ pc' = "uint16_read"
    /\ UNCHANGED <<contents, ksmfile, full_dump, symbol_dump, term_dump, ko_vars>>

NextAddr == ReadArgumentAddress \/ ReadUint16Be

SpecAddr == InitAddr /\ [][NextAddr]_vars

RECURSIVE BigEndian(_, _)
\* The unsigned value of bytes of which the first is the highest.
BigEndian(arr, acc) ==
    IF arr = <<>> THEN acc ELSE BigEndian(Tail(arr), acc * 256 + Head(arr))

\* An address has been read from bytes that were all there.
AddrRead ==
    /\ pc \in {"addr_read", "uint16_read"}
    /\ Len(contents) >= reader.arg_address_bytes

RECURSIVE ShiftRight(_, _)
\* The value without its k lowest bytes.
ShiftRight(v, k) == IF k = 0 THEN v ELSE ShiftRight(v \div 256, k - 1)

\* C29: for every width w of 1 to 4, the address read is the unsigned
\* big-endian value of the next w bytes and lies below 256^w; three bytes
\* b0 b1 b2 give b0 * 65536 + b1 * 256 + b2.
C29_AddressIsBigEndian ==
    AddrRead =>
        /\ result.status = "ok"
        /\ result.value = BigEndian(SubSeq(contents, 1, reader.arg_address_bytes), 0)
        /\ ShiftRight(result.value, reader.arg_address_bytes) = 0
        /\ reader.arg_address_bytes = 3 =>
              result.value = contents[1] * 65536 + contents[2] * 256 + contents[3]

\* ---------------------------------------------------------------------
\* The type names of the constant-pool and data-section listings
\* ---------------------------------------------------------------------

\* The width of the type column: write!(stream, "{:<12}", ...)
TypeColumn == 12

\* The arms of KSMFileDebug::dump_argument_section: the type name written
\* in front of a value of the argument section.
dump_argument_section_type(value) ==
    CASE value.kind = "Null" -> <<"N", "U", "L", "L">>
      [] value.kind = "Bool" -> PadRight(<<"B", "O", "O", "L">>, TypeColumn)
      [] value.kind = "Byte" -> PadRight(<<"B", "Y", "T", "E">>, TypeColumn)
      [] value.kind = "Int16" -> PadRight(<<"I", "N", "T", "1", "6">>, TypeColumn)
      [] value.kind = "Int32" -> PadRight(<<"I", "N", "T", "3", "2">>, TypeColumn)
      [] value.kind = "Float" -> PadRight(<<"F", "L", "O", "A", "T">>, TypeColumn)
      [] value.kind = "Double" -> PadRight(<<"D", "O", "U", "B", "L", "E">>, TypeColumn)
      [] value.kind = "String" -> PadRight(<<"S", "T", "R", "I", "N", "G">>, TypeColumn)
      [] value.kind = "ArgMarker" -> PadRight(<<"A", "R", "G", "M", "A", "R", "K", "E", "R">>, TypeColumn)
      [] value.kind = "ScalarInt" -> PadRight(<<"S", "C", "A", "L", "A", "R", "I", "N", "T">>, TypeColumn)
      [] value.kind = "ScalarDouble" -> PadRight(<<"S", "C", "A", "L", "A", "R", "D", "O", "U", "B", "L", "E">>, TypeColumn)
      [] value.kind = "BoolValue" -> PadRight(<<"S", "C", "A", "L", "A", "R", "D", "O", "U", "B", "L", "E">>, TypeColumn)
      [] value.kind = "StringValue" -> PadRight(<<"S", "T", "R", "I", "N", "G", "V", "A", "L", "U", "E">>, TypeColumn)

\* The arms of KOFileDebug::dump_data: the type name written in front of a
\* value of the data section.
dump_data_type(value) ==
    CASE value.kind = "Null" -> <<"N", "U", "L", "L">>
      [] value.kind = "Bool" -> PadRight(<<"B", "O", "O", "L">>, TypeColumn)
      [] value.kind = "Byte" -> PadRight(<<"B", "Y", "T", "E">>, TypeColumn)
      [] value.kind = "Int16" -> PadRight(<<"I", "N", "T", "1", "6">>, TypeColumn)
      [] value.kind = "Int32" -> PadRight(<<"I", "N", "T", "3", "2">>, TypeColumn)
      [] value.kind = "Float" -> PadRight(<<"F", "L", "O", "A", "T">>, TypeColumn)
      [] value.kind = "Double" -> PadRight(<<"D", "O", "U", "B", "L", "E">>, TypeColumn)
      [] value.kind = "String" -> PadRight(<<"S", "T", "R", "I", "N", "G">>, TypeColumn)
      [] value.kind = "ArgMarker" -> PadRight(<<"A", "R", "G", "M", "A", "R", "K", "E", "R">>, TypeColumn)
      [] value.kind = "ScalarInt" -> PadRight(<<"S", "C", "A", "L", "A", "R", "I", "N", "T">>, TypeColumn)
      [] value.kind = "ScalarDouble" -> PadRight(<<"S", "C", "A", "L", "A", "R", "D", "O", "U", "B", "L", "E">>, TypeColumn)
      [] value.kind = "BoolValue" -> PadRight(<<"S", "C", "A", "L", "A", "R", "D", "O", "U", "B", "L", "E">>, TypeColumn)
      [] value.kind = "StringValue" -> PadRight(<<"S", "T", "R", "I", "N", "G", "V", "A", "L", "U", "E">>, TypeColumn)

\* argument_type_string: the type name of the older listing of arguments.
argument_type_string(value) ==
    CASE value.kind = "Null" -> <<"N", "U", "L", "L">>
      [] value.kind = "Bool" -> <<"B", "O", "O", "L">>
      [] value.kind = "Byte" -> <<"B", "Y", "T", "E">>
      [] value.kind = "Int16" -> <<"I", "N", "T", "1", "6">>
      [] value.kind = "Int32" -> <<"I", "N", "T", "3", "2">>
      [] value.kind = "Float" -> <<"F", "3", "2">>
      [] value.kind = "Double" -> <<"F", "6", "4">>
      [] value.kind = "String" -> <<"S", "T", "R", "I", "N", "G">>
      [] value.kind = "ArgMarker" -> <<"A", "R", "G", "M", "A", "R", "K", "E", "R">>
      [] value.kind = "ScalarInt" -> <<"S", "C", "A", "L", "A", "R", "I", "N", "T">>
      [] value.kind = "ScalarDouble" -> <<"S", "C", "A", "L", "A", "R", "F", "6", "4">>
      [] value.kind = "BoolValue" -> <<"B", "O", "O", "L", "V", "A", "L", "U", "E">>
      [] value.kind = "StringValue" -> <<"S", "T", "R", "I", "N", "G", "V", "A", "L", "U", "E">>

\* One value of every variant, and a second one where the variant has a payload.
TypedValues ==
    { KNull, KArgMarker, KBool(0), KBool(1), KInt16(5), KInt16(7),
      KString(T_five), KString(T_func), KStringValue(T_five), KStringValue(T_func),
      Arg("Byte", <<>>, 5), Arg("Int32", <<>>, 5), Arg("ScalarInt", <<>>, 5),
      Arg("Float", <<0, 0, 128, 63>>, 0),
      Arg("Double", <<0, 0, 0, 0, 0, 0, 240, 63>>, 0),
      Arg("ScalarDouble", <<0, 0, 0, 0, 0, 0, 240, 63>>, 0),
      Arg("BoolValue", <<>>, 0), Arg("BoolValue", <<>>, 1) }

\* The number of values of a listing.
ListedValues == 2

InitTypeName ==
    /\ pc = "values_listed"
    /\ contents \in [1..ListedValues -> TypedValues]
    /\ result = <<>>
    /\ reader = Idle
    /\ ksmfile = Idle /\ full_dump = Idle /\ symbol_dump = Idle /\ term_dump = Idle
    /\ kofile = Idle /\ ko_dump = Idle

TypeNames(by, name(_)) ==
    /\ pc = "values_listed"
    /\ pc' = by
    /\ result' = [i \in 1..Len(contents) |-> name(contents[i])]
    /\ UNCHANGED <<ksmfile, full_dump, symbol_dump, term_dump, kofile, ko_dump, contents, reader>>

DumpArgumentSection == TypeNames("argument_section", dump_argument_section_type)

DumpData == TypeNames("data_section", dump_data_type)

ArgumentTypeString == TypeNames("argument_list", argument_type_string)

NextTypeName == DumpArgumentSection \/ DumpData \/ ArgumentTypeString

SpecTypeName == InitTypeName /\ [][NextTypeName]_vars

\* The lines of a listing have been written.
Listed == pc \in {"argument_section", "data_section", "argument_list"}

\* C30: in the listings of the constant pool and of the data section, two
\* values of different variants are never shown with the same type name.
C30_TypeNameTellsVariant ==
    Listed =>
        \A i, j \in 1..Len(contents) :
            contents[i].kind # contents[j].kind => result[i] # result[j]

====
